---- MODULE Spec2Model ----
(***************************************************************************)
(* Request lifecycle and timeline engine of the AKsecure backend:          *)
(* tickets (controllers/ticketController.js, models/Ticket.js) and service *)
(* requests (controllers/serviceRequestController.js,                      *)
(* models/ServiceRequest.js), with the route guards of routes/*.js and     *)
(* middleware/auth.js.                                                     *)
(***************************************************************************)
EXTENDS Integers, Sequences, FiniteSets, TLC

\* ------------------------------------------------------------------ bounds
MaxDocs == 2        \* records ever created, tickets and service requests together
MaxTimeline == 2    \* timeline entries per record
MaxWrites == 3      \* creations, updates, comments and deletions in one run
MaxTime == 1        \* the clock runs over 0..MaxTime
MaxProcs == 2       \* requests in flight at the same time

\* ------------------------------------------------------------- principals
Users == {"u1", "u2"}
AdminIds == {"admin-session-61"}
Actors == Users \cup AdminIds

\* req.user.role as set by protect
Role(a) == IF a \in AdminIds THEN "admin" ELSE "user"

\* ------------------------------------------------------------ value spaces
NoDate == -1
NoDoc == 0
IdSpace == 1..MaxDocs
\* req.body.assignedVisitAt: absent, the number 0 (the epoch, a value JavaScript
\* takes for false in a test) or a later instant
VisitInputs == {NoDate, 0, 5}
\* if (assignedVisitAt): the value is given and passes a truth test
Truthy(visit) == visit # NoDate /\ visit # 0
\* assignedVisitAt || null
OrNull(visit) == IF Truthy(visit) THEN visit ELSE NoDate
TicketStatuses == {"New", "In Progress", "Closed"}
RequestStatuses == {"New", "In Progress", "Completed", "Rejected"}
\* req.body.status: "" is an absent status, "Bogus" a value outside the enum
TicketStatusInputs == TicketStatuses \cup {"", "Bogus"}
RequestStatusInputs == RequestStatuses \cup {"", "Bogus"}
Categories == {"CCTV", "Fire Alarm", "Security Alarm", "Electrical", "Plumbing", "Air Conditioning"}
RequestCategories == Categories \cup {"Intruder Alarm"}
\* req.body of the two create handlers: "" is a missing field
TicketBodies ==
    {[category |-> c, title |-> "t", description |-> "d"] : c \in {"", "CCTV", "Bogus"}}
    \cup {[category |-> "CCTV", title |-> "", description |-> "d"],
          [category |-> "CCTV", title |-> "t", description |-> ""]}
RequestBodies ==
    {[category |-> c, title |-> "t", description |-> "d", address |-> "a",
      outletName |-> "o", location |-> "l"] : c \in {"", "Intruder Alarm", "Bogus"}}
    \cup {[category |-> "CCTV", title |-> "t", description |-> "d", address |-> a,
           outletName |-> o, location |-> l] :
              a \in {"", "a"}, o \in {"", "o"}, l \in {"", "l"}}
    \cup {[category |-> "CCTV", title |-> t, description |-> d, address |-> "a",
           outletName |-> "o", location |-> "l"] : t \in {"", "t"}, d \in {"", "d"}}
NoteInputs == {<< >>, <<" ">>, <<"a">>, <<" ", "b">>}
FileInputs == {<< >>, <<"f1">>}

\* ------------------------------------------------- human identifier strings
Digits == <<"0", "1", "2", "3", "4", "5", "6", "7", "8", "9">>
DigitChars == {Digits[i] : i \in 1..10}
DigitVal(c) == (CHOOSE i \in 1..10 : Digits[i] = c) - 1
PadWidth == 6

\* String(n) for a non-negative integer
RECURSIVE ToDigits(_)
ToDigits(n) == IF n < 10 THEN <<Digits[n + 1]>>
               ELSE Append(ToDigits(n \div 10), Digits[(n % 10) + 1])

\* String(n) left as it is, without padStart
PadStartNone(s, w) == s

\* s.padStart(w, '0')
RECURSIVE PadStart(_, _)
PadStart(s, w) == IF Len(s) >= w THEN s ELSE PadStart(<<"0">> \o s, w)

\* s.replace(/\D/g, '')
StripNonDigits(s) == SelectSeq(s, LAMBDA c : c \in DigitChars)

\* parseInt(s, 10) of a digit string; -1 stands for NaN (empty string)
RECURSIVE ParseInt(_)
ParseInt(s) == IF s = << >> THEN -1
               ELSE IF Len(s) = 1 THEN DigitVal(s[1])
               ELSE 10 * ParseInt(SubSeq(s, 1, Len(s) - 1)) + DigitVal(s[Len(s)])

TicketPrefix == <<"T", "K", "T", "-">>
RequestPrefix == <<"S", "R", "V", "-">>

\* lastSeq / nextSeq of the pre('validate') hooks; last is a human id or << >>
NextSeq(last) ==
    LET lastSeq == IF last # << >> THEN ParseInt(StripNonDigits(last)) ELSE 0
    IN  IF lastSeq >= 0 THEN lastSeq + 1 ELSE 1

NextTicketId(last) == TicketPrefix \o PadStart(ToDigits(NextSeq(last)), PadWidth)
NextRequestId(last) == RequestPrefix \o PadStart(ToDigits(NextSeq(last)), PadWidth)

\* the findOne of pre('validate') is answered or rejects
ReadOutcomes == {"ok", "error"}
\* what the hook holds after a findOne that rejected: the error, passed to next(err)
ReadError == <<"findOne rejected">>

\* a catch that goes on as if there were no record yet
HookReadSwallowed(read, lasts) == IF read = "error" THEN {<< >>} ELSE lasts

\* try { lastTicket = await findOne()... } catch (err) { next(err) }
HookRead(read, lasts) == IF read = "error" THEN {ReadError} ELSE lasts

\* pre('validate') without its guard: the identifier is computed at every save
TicketPreValidateEverySave(doc, isNew, last) == [doc EXCEPT !.ticketId = NextTicketId(last)]
RequestPreValidateEverySave(doc, isNew, last) == [doc EXCEPT !.requestId = NextRequestId(last)]

\* pre('validate'): if (!this.isNew || this.ticketId) return next(); otherwise the
\* identifier that follows the one of the newest record
TicketPreValidate(doc, isNew, last) ==
    IF ~isNew \/ doc.ticketId # << >> THEN doc
    ELSE [doc EXCEPT !.ticketId = NextTicketId(last)]
RequestPreValidate(doc, isNew, last) ==
    IF ~isNew \/ doc.requestId # << >> THEN doc
    ELSE [doc EXCEPT !.requestId = NextRequestId(last)]

\* ------------------------------------------------------------ text helpers
\* if (!note): the note is absent or the empty string
NoteNeverMissing(note) == FALSE
NoteMissing(note) == note = << >>

\* schema option trim: true
RECURSIVE TrimStart(_)
TrimStart(s) == IF s # << >> /\ s[1] = " " THEN TrimStart(Tail(s)) ELSE s
RECURSIVE TrimEnd(_)
TrimEnd(s) == IF s # << >> /\ s[Len(s)] = " " THEN TrimEnd(SubSeq(s, 1, Len(s) - 1)) ELSE s
Trim(s) == TrimEnd(TrimStart(s))

\* includes comparing ObjectIds by reference: a freshly decoded id is never found
IncludesByReference(arr, x) == FALSE

\* Array.prototype.includes on a mongoose array of ObjectIds
Includes(arr, x) == \E i \in 1..Len(arr) : arr[i] = x

\* ---------------------------------------------------------------- state
VARIABLES
    tickets,    \* Ticket collection: _id -> document
    requests,   \* ServiceRequest collection: _id -> document
    oidT,       \* number of Ticket _ids handed out
    oidR,       \* number of ServiceRequest _ids handed out
    writes,     \* creations, updates, comments and deletions so far
    now,        \* Date.now()
    procs,      \* handlers suspended between two awaits
    resp,       \* the response the client is reading, NoResp when it has read it
    outbox,     \* mails handed to setImmediate and not yet dispatched, oldest first
    allocT,     \* numeric suffixes of the ticket ids allocated so far
    allocR,     \* numeric suffixes of the request ids allocated so far
    users       \* User collection: _id -> document

vars == <<tickets, requests, oidT, oidR, writes, now, procs, resp, outbox, allocT, allocR,
         users>>

\* the name each user registered with
RegisteredName(a) == IF a = "u1" THEN "Uma" ELSE "Vik"

\* req.user.name as set by protect: made up for an admin session, read from the
\* User collection for everybody else
UserName(a) == IF a \in AdminIds THEN "Admin a" ELSE users[a].name

\* a response: the request it answers, its status code, and whether the handler
\* wrote to storage on the way
\* the body of a listing: the _id of the records in the order returned, and the
\* counters getServiceRequests adds
NoListing == [items |-> << >>, total |-> 0, page |-> 0, pages |-> 0, hasMore |-> FALSE]

NoResp == [op |-> "none", kind |-> "none", actor |-> "none", id |-> NoDoc, code |-> 0,
           idx |-> 0, wrote |-> FALSE, list |-> NoListing]
Resp(op, kind, actor, id, code) ==
    [op |-> op, kind |-> kind, actor |-> actor, id |-> id, code |-> code,
     idx |-> 0, wrote |-> FALSE, list |-> NoListing]
Wrote(r) == [r EXCEPT !.wrote = TRUE]

\* a handler between two awaits: pc is where it resumes, hid the human id it computed,
\* v the __v of the document it loaded, attempts its inserts so far, code its response,
\* note and files the comment it carries, before the calls for the same record that
\* were made earlier and have not answered yet, status and visit the body of an
\* update, loaded and assigned the paths of the document as it was read and as the
\* handler has assigned them
NoPaths == [status |-> "", assignedVisitAt |-> NoDate, completedAt |-> NoDate]
IdleProc == [pc |-> "idle", op |-> "none", kind |-> "none", actor |-> "none", id |-> NoDoc,
             idx |-> 0, category |-> "", hid |-> << >>, v |-> 0, attempts |-> 0, code |-> 0,
             note |-> << >>, files |-> << >>, before |-> {},
             status |-> "", visit |-> NoDate, loaded |-> NoPaths, assigned |-> NoPaths]

Init ==
    /\ tickets = << >>
    /\ requests = << >>
    /\ oidT = 0
    /\ oidR = 0
    /\ writes = 0
    /\ now = 0
    /\ procs = [p \in 1..MaxProcs |-> IdleProc]
    /\ resp = NoResp
    /\ outbox = << >>
    /\ allocT = {}
    /\ allocR = {}
    /\ users = [a \in Users |-> [name |-> RegisteredName(a)]]

\* -------------------------------------------------------- storage helpers
Exists(coll, id) == id \in DOMAIN coll

\* Model.findOne({}).sort({ createdAt: -1 }): the documents that can come first
LastCreated(coll) ==
    {d \in DOMAIN coll : \A e \in DOMAIN coll : coll[e].createdAt <= coll[d].createdAt}

\* collection with one document added or replaced
Put(coll, id, doc) == [d \in (DOMAIN coll) \cup {id} |-> IF d = id THEN doc ELSE coll[d]]

\* a delete that marks nothing and removes nothing
RemoveNothing(coll, id) == coll

\* Model.findByIdAndDelete
Remove(coll, id) == [d \in (DOMAIN coll) \ {id} |-> coll[d]]

\* the unique index on ticketId / requestId
TicketIdTaken(hid) == \E d \in DOMAIN tickets : tickets[d].ticketId = hid
RequestIdTaken(hid) == \E d \in DOMAIN requests : requests[d].requestId = hid

\* the entry addComment pushes
NewEntry(note, files, actor) ==
    [note |-> Trim(note), images |-> files, addedBy |-> UserName(actor),
     addedAt |-> now, seenBy |-> << >>]

\* timeline.unshift(entry) in place of push
TimelineUnshift(timeline, entry) == <<entry>> \o timeline

\* timeline = [entry] in place of push
TimelineOverwrite(timeline, entry) == <<entry>>

\* timeline.push(entry)
TimelinePush(timeline, entry) == Append(timeline, entry)

\* timelineItem.seenBy.push(userId)
PushSeen(timeline, idx, user) ==
    [timeline EXCEPT ![idx + 1].seenBy = Append(@, user)]

\* one more write against the budget of the run; an acknowledgement is not
\* counted, a seenBy takes each user once
Write ==
    /\ writes < MaxWrites
    /\ writes' = writes + 1

Tick ==
    /\ now < MaxTime
    /\ now' = now + 1
    /\ UNCHANGED <<tickets, requests, oidT, allocT, oidR, allocR, writes, outbox, procs, resp,
                 users>>

\* the client has read the response and may send its next request
NextRequest ==
    /\ resp # NoResp
    /\ outbox = << >>
    /\ resp' = NoResp
    /\ UNCHANGED <<tickets, requests, oidT, allocT, oidR, allocR, writes, outbox, now, users, procs>>

\* --------------------------------------------------- notification intents
\* the numeric suffix of a human identifier, as pre('validate') reads it
SeqOf(hid) == ParseInt(StripNonDigits(hid))

NewMail == "new"
ConfirmationMail == "confirmation"
ReplyMail == "reply"
Staff == "staff"

Mail(type, to, kind, id, msg, visit, final) ==
    [type |-> type, to |-> to, kind |-> kind, id |-> id, msg |-> msg, visit |-> visit,
     final |-> final]

\* setImmediate(...) of the create handlers: the notice to the staff, then the
\* confirmation to the owner, in one try block
CreationMails(kind, id, owner) ==
    << Mail(NewMail, Staff, kind, id, << >>, NoDate, FALSE),
       Mail(ConfirmationMail, owner, kind, id, << >>, NoDate, FALSE) >>

\* the line about a visit that both update handlers put first in replyMessage
VisitLine(kind, oldVisit, visit) ==
    IF Truthy(visit) /\ (oldVisit = NoDate \/ visit # oldVisit)
    THEN IF kind = "ticket" THEN <<"A visit has been scheduled for your ticket.">>
         ELSE <<"A visit has been scheduled for your service request.">>
    ELSE << >>

DashboardLine == "Please check your dashboard for more details."

\* replyMessage of updateTicket, line by line
TicketReplyMessage(oldStatus, oldVisit, status, visit) ==
    LET statusLines ==
            IF status # "" /\ status # oldStatus
            THEN IF status = "Closed"
                 THEN <<"Your ticket has been closed as the service is completed.",
                        "Thank you for using our service. If you have any further issues, please create a new ticket.">>
                 ELSE <<"Your ticket status has been updated to: ", status, ".">>
            ELSE << >>
        lines == VisitLine("ticket", oldVisit, visit) \o statusLines
    IN  IF lines = << >> THEN << >>
        ELSE IF status # "Closed" THEN Append(lines, DashboardLine) ELSE lines

\* replyMessage of updateServiceRequest, line by line
RequestReplyMessage(oldStatus, oldVisit, status, visit) ==
    LET statusLines ==
            IF status # "" /\ status # oldStatus
            THEN IF status = "Completed"
                 THEN <<"Your service request has been completed.",
                        "Thank you for using our service.">>
                 ELSE IF status = "Rejected"
                 THEN <<"Your service request has been rejected.">>
                 ELSE <<"Your service request status has been updated to: ", status, ".">>
            ELSE << >>
        lines == VisitLine("request", oldVisit, visit) \o statusLines
    IN  IF lines = << >> THEN << >>
        ELSE IF status # "Completed" /\ status # "Rejected"
             THEN Append(lines, DashboardLine) ELSE lines

\* the mail updateTicket hands to setImmediate after findOneAndUpdate
TicketUpdateMails(doc, status, visit) ==
    LET msg == TicketReplyMessage(doc.status, doc.assignedVisitAt, status, visit) IN
    IF (Truthy(visit) \/ (status # "" /\ status # doc.status)) /\ msg # << >>
    THEN <<Mail(ReplyMail, doc.userId, "ticket", doc._id, msg, OrNull(visit),
                status = "Closed")>>
    ELSE << >>

\* updateServiceRequest mailing only when a visit is given
RequestUpdateMailsVisitOnly(doc, status, visit) ==
    LET msg == RequestReplyMessage(doc.status, doc.assignedVisitAt, status, visit) IN
    IF Truthy(visit) /\ msg # << >>
    THEN <<Mail(ReplyMail, doc.userId, "request", doc._id, msg, OrNull(visit),
                status = "Completed" \/ status = "Rejected")>>
    ELSE << >>

\* the mail updateServiceRequest hands to setImmediate after save()
RequestUpdateMails(doc, status, visit) ==
    LET msg == RequestReplyMessage(doc.status, doc.assignedVisitAt, status, visit) IN
    IF (Truthy(visit) \/ (status # "" /\ status # doc.status)) /\ msg # << >>
    THEN <<Mail(ReplyMail, doc.userId, "request", doc._id, msg, OrNull(visit),
                status = "Completed" \/ status = "Rejected")>>
    ELSE << >>

\* the same mail carrying the note as it was stored
CommentMailsTrimmed(kind, doc, actor, note) ==
    IF Role(actor) = "admin"
    THEN <<Mail(ReplyMail, doc.userId, kind, doc._id, Trim(note), doc.assignedVisitAt, FALSE)>>
    ELSE << >>

\* the mail addComment hands to setImmediate after save() when an admin commented
CommentMails(kind, doc, actor, note) ==
    IF Role(actor) = "admin"
    THEN <<Mail(ReplyMail, doc.userId, kind, doc._id, note, doc.assignedVisitAt, FALSE)>>
    ELSE << >>

\* setImmediate(callback): the mails wait for the event loop
Send(mails) == outbox' = outbox \o mails

DispatchOutcomes == {"sent", "failed", "pending"}

\* the callback sends its next mail: once sent it goes on to the next one; a send
\* that throws lands in the catch block, which logs, and one that never settles
\* keeps the callback waiting: either way nothing more of it runs
\* the send awaited by the handler: a failed send becomes the handler's error
DispatchAwaited(outcome) ==
    /\ outbox # << >>
    /\ outbox' = IF outcome = "sent" THEN Tail(outbox) ELSE << >>
    /\ resp' = IF outcome = "failed" THEN [resp EXCEPT !.code = 500] ELSE resp
    /\ UNCHANGED <<tickets, requests, oidT, allocT, oidR, allocR, writes, now, users, procs>>

Dispatch(outcome) ==
    /\ outbox # << >>
    /\ outbox' = IF outcome = "sent" THEN Tail(outbox) ELSE << >>
    /\ UNCHANGED <<tickets, requests, oidT, allocT, oidR, allocR, writes, now, users, procs, resp>>

\* ------------------------------------------------- tickets: whole handlers
\* the document Ticket.create builds, with the id chosen by pre('validate')
\* a schema whose viewedByAdmin defaults to true
NewTicketViewed(actor, category, last) ==
    TicketPreValidate(
        [_id |-> oidT + 1, ticketId |-> << >>, userId |-> actor,
         category |-> category, status |-> "New", assignedVisitAt |-> NoDate,
         timeline |-> << >>, viewedByAdmin |-> TRUE,
         createdAt |-> now, updatedAt |-> now, __v |-> 0], TRUE, last)

NewTicket(actor, category, last) ==
    TicketPreValidate(
        [_id |-> oidT + 1, ticketId |-> << >>, userId |-> actor,
         category |-> category, status |-> "New", assignedVisitAt |-> NoDate,
         timeline |-> << >>, viewedByAdmin |-> FALSE,
         createdAt |-> now, updatedAt |-> now, __v |-> 0], TRUE, last)

\* the human id of the record findOne().sort({createdAt: -1}) returned, << >> if none
LastTicketIds ==
    IF DOMAIN tickets = {} THEN {<< >>} ELSE {tickets[d].ticketId : d \in LastCreated(tickets)}

createTicketWith(actor, body, read) ==
    /\ resp = NoResp
    /\ UNCHANGED <<requests, oidR, allocR, procs, users>>
    /\ IF body.category = "" \/ body.title = "" \/ body.description = ""
       THEN /\ resp' = Resp("create", "ticket", actor, NoDoc, 400)
            /\ UNCHANGED <<tickets, oidT, allocT, writes, outbox, now>>
       ELSE IF actor \notin Users
       THEN \* User.findById cannot cast an admin session id
            /\ resp' = Resp("create", "ticket", actor, NoDoc, 500)
            /\ UNCHANGED <<tickets, oidT, allocT, writes, outbox, now>>
       ELSE \E last \in HookRead(read, LastTicketIds) :
            LET doc == NewTicket(actor, body.category, last) IN
            IF \/ last = ReadError
               \/ body.category \notin Categories \/ TicketIdTaken(doc.ticketId)
            THEN /\ resp' = Resp("create", "ticket", actor, NoDoc, 500)
                 /\ UNCHANGED <<tickets, oidT, allocT, writes, outbox, now>>
            ELSE /\ oidT + oidR < MaxDocs
                 /\ Write
                 /\ Send(CreationMails("ticket", doc._id, actor))
                 /\ tickets' = Put(tickets, doc._id, doc)
                 /\ oidT' = oidT + 1
                 /\ now' = now + 1
                 /\ allocT' = allocT \cup {SeqOf(doc.ticketId)}
                 /\ resp' = Wrote(Resp("create", "ticket", actor, doc._id, 201))

\* createTicket while the collection answers the hook's findOne
createTicket(actor, body) == createTicketWith(actor, body, "ok")

\* getTicketById without the admin exemption
getTicketByIdOwnerOnly(actor, id) ==
    /\ resp = NoResp
    /\ UNCHANGED <<tickets, requests, oidT, allocT, oidR, allocR, writes, outbox, now, users, procs>>
    /\ IF ~Exists(tickets, id)
       THEN resp' = Resp("read", "ticket", actor, id, 404)
       ELSE IF tickets[id].userId # actor
       THEN resp' = Resp("read", "ticket", actor, id, 403)
       ELSE resp' = Resp("read", "ticket", actor, id, 200)

getTicketById(actor, id) ==
    /\ resp = NoResp
    /\ UNCHANGED <<tickets, requests, oidT, allocT, oidR, allocR, writes, outbox, now, users, procs>>
    /\ IF ~Exists(tickets, id)
       THEN resp' = Resp("read", "ticket", actor, id, 404)
       ELSE IF Role(actor) # "admin" /\ tickets[id].userId # actor
       THEN resp' = Resp("read", "ticket", actor, id, 403)
       ELSE resp' = Resp("read", "ticket", actor, id, 200)

\* updateData that leaves the status of a Closed ticket alone
TicketUpdateDataClosedFinal(doc, status, visit) ==
    [status |-> IF status # "" /\ status # doc.status /\ doc.status # "Closed"
                THEN status ELSE doc.status,
     assignedVisitAt |-> IF visit # NoDate /\ visit # doc.assignedVisitAt
                         THEN visit ELSE doc.assignedVisitAt]

\* updateData of updateTicket: the fields findOneAndUpdate will $set
TicketUpdateData(doc, status, visit) ==
    [status |-> IF status # "" /\ status # doc.status THEN status ELSE doc.status,
     assignedVisitAt |-> IF visit # NoDate /\ visit # doc.assignedVisitAt
                         THEN visit ELSE doc.assignedVisitAt]

\* updateTicket with the `{ _id: id }` filter left empty: the update lands on every ticket
updateTicketEveryTicket(actor, id, status, visit) ==
    /\ resp = NoResp
    /\ UNCHANGED <<requests, oidT, allocT, oidR, allocR, now, users, procs>>
    /\ IF Role(actor) # "admin"
       THEN /\ resp' = Resp("update", "ticket", actor, id, 403)
            /\ UNCHANGED <<tickets, writes, outbox>>
       ELSE IF ~Exists(tickets, id)
       THEN /\ resp' = Resp("update", "ticket", actor, id, 404)
            /\ UNCHANGED <<tickets, writes, outbox>>
       ELSE LET doc == tickets[id]
                upd == TicketUpdateData(doc, status, visit) IN
            IF upd.status = doc.status /\ upd.assignedVisitAt = doc.assignedVisitAt
            THEN /\ resp' = Resp("update", "ticket", actor, id, 200)
                 /\ UNCHANGED <<tickets, writes, outbox>>
            ELSE /\ resp' = Wrote(Resp("update", "ticket", actor, id, 200))
                 /\ Write
                 /\ Send(TicketUpdateMails(doc, status, visit))
                 /\ tickets' = [d \in DOMAIN tickets |->
                        [tickets[d] EXCEPT !.status = upd.status,
                                           !.assignedVisitAt = upd.assignedVisitAt]]

updateTicket(actor, id, status, visit) ==
    /\ resp = NoResp
    /\ UNCHANGED <<requests, oidT, allocT, oidR, allocR, now, users, procs>>
    /\ IF Role(actor) # "admin"
       THEN /\ resp' = Resp("update", "ticket", actor, id, 403)
            /\ UNCHANGED <<tickets, writes, outbox>>
       ELSE IF ~Exists(tickets, id)
       THEN /\ resp' = Resp("update", "ticket", actor, id, 404)
            /\ UNCHANGED <<tickets, writes, outbox>>
       ELSE LET doc == tickets[id]
                upd == TicketUpdateData(doc, status, visit) IN
            IF upd.status = doc.status /\ upd.assignedVisitAt = doc.assignedVisitAt
            THEN /\ resp' = Resp("update", "ticket", actor, id, 200)
                 /\ UNCHANGED <<tickets, writes, outbox>>
            ELSE \* findOneAndUpdate with timestamps: false, no validators
                 /\ resp' = Wrote(Resp("update", "ticket", actor, id, 200))
                 /\ Write
                 /\ Send(TicketUpdateMails(doc, status, visit))
                 /\ tickets' = Put(tickets, id,
                        [doc EXCEPT !.status = upd.status,
                                    !.assignedVisitAt = upd.assignedVisitAt])

addCommentT(actor, id, note, files) ==
    /\ resp = NoResp
    /\ UNCHANGED <<requests, oidT, allocT, oidR, allocR, now, users, procs>>
    /\ IF NoteMissing(note)
       THEN /\ resp' = Resp("addComment", "ticket", actor, id, 400)
            /\ UNCHANGED <<tickets, writes, outbox>>
       ELSE IF ~Exists(tickets, id)
       THEN /\ resp' = Resp("addComment", "ticket", actor, id, 404)
            /\ UNCHANGED <<tickets, writes, outbox>>
       ELSE IF Role(actor) # "admin" /\ tickets[id].userId # actor
       THEN /\ resp' = Resp("addComment", "ticket", actor, id, 403)
            /\ UNCHANGED <<tickets, writes, outbox>>
       ELSE IF Trim(note) = << >>
       THEN \* save() rejects the entry: note is required after trimming
            /\ resp' = Resp("addComment", "ticket", actor, id, 500)
            /\ UNCHANGED <<tickets, writes, outbox>>
       ELSE LET doc == tickets[id] IN
            /\ Len(doc.timeline) < MaxTimeline
            /\ Write
            /\ Send(CommentMails("ticket", doc, actor, note))
            /\ \E last \in LastTicketIds :
                 tickets' = Put(tickets, id, TicketPreValidate(
                   [doc EXCEPT !.timeline = TimelinePush(@, NewEntry(note, files, actor)),
                               !.updatedAt = now, !.__v = @ + 1], FALSE, last))
            /\ resp' = Wrote(Resp("addComment", "ticket", actor, id, 200))

deleteTicket(actor, id) ==
    /\ resp = NoResp
    /\ UNCHANGED <<requests, oidT, allocT, oidR, allocR, now, users, procs>>
    /\ IF ~Exists(tickets, id)
       THEN /\ resp' = Resp("delete", "ticket", actor, id, 404)
            /\ UNCHANGED <<tickets, writes, outbox>>
       ELSE IF Role(actor) # "admin" /\ tickets[id].userId # actor
       THEN /\ resp' = Resp("delete", "ticket", actor, id, 403)
            /\ UNCHANGED <<tickets, writes, outbox>>
       ELSE /\ Write
            /\ UNCHANGED outbox
            /\ tickets' = Remove(tickets, id)
            /\ resp' = Wrote(Resp("delete", "ticket", actor, id, 200))

\* updateMany with an empty filter: every ticket is marked
MarkViewedAll(coll, ticketIds) ==
    [d \in DOMAIN coll |-> [coll[d] EXCEPT !.viewedByAdmin = TRUE, !.updatedAt = now]]

\* Ticket.updateMany({ _id: { $in: ticketIds } }, { $set: { viewedByAdmin: true } })
MarkViewed(coll, ticketIds) ==
    [d \in DOMAIN coll |->
        IF d \in ticketIds
        THEN [coll[d] EXCEPT !.viewedByAdmin = TRUE, !.updatedAt = now]
        ELSE coll[d]]

\* markTicketsAsViewed routed without adminOnly
markTicketsAsViewedUnguarded(actor, ticketIds) ==
    /\ resp = NoResp
    /\ UNCHANGED <<requests, oidT, allocT, oidR, allocR, now, users, procs>>
    /\ IF ticketIds = {}
       THEN /\ resp' = Resp("markViewed", "ticket", actor, NoDoc, 400)
            /\ UNCHANGED <<tickets, writes, outbox>>
       ELSE IF ticketIds \cap DOMAIN tickets = {}
       THEN /\ resp' = Resp("markViewed", "ticket", actor, NoDoc, 200)
            /\ UNCHANGED <<tickets, writes, outbox>>
       ELSE /\ resp' = Wrote(Resp("markViewed", "ticket", actor, NoDoc, 200))
            /\ Write
            /\ UNCHANGED outbox
            /\ tickets' = MarkViewed(tickets, ticketIds)

markTicketsAsViewed(actor, ticketIds) ==
    /\ resp = NoResp
    /\ UNCHANGED <<requests, oidT, allocT, oidR, allocR, now, users, procs>>
    /\ IF Role(actor) # "admin"
       THEN /\ resp' = Resp("markViewed", "ticket", actor, NoDoc, 403)
            /\ UNCHANGED <<tickets, writes, outbox>>
       ELSE IF ticketIds = {}
       THEN /\ resp' = Resp("markViewed", "ticket", actor, NoDoc, 400)
            /\ UNCHANGED <<tickets, writes, outbox>>
       ELSE IF ticketIds \cap DOMAIN tickets = {}
       THEN \* updateMany matches no document
            /\ resp' = Resp("markViewed", "ticket", actor, NoDoc, 200)
            /\ UNCHANGED <<tickets, writes, outbox>>
       ELSE /\ resp' = Wrote(Resp("markViewed", "ticket", actor, NoDoc, 200))
            /\ Write
            /\ UNCHANGED outbox
            /\ tickets' = MarkViewed(tickets, ticketIds)

\* markReplyAsSeen without the `if (!timelineItem)` test: any index is answered 200.
markReplyAsSeenTLenient(actor, id, idx) ==
    /\ resp = NoResp
    /\ UNCHANGED <<tickets, requests, oidT, allocT, oidR, allocR, now, users, procs, writes, outbox>>
    /\ resp' = [Resp("markSeen", "ticket", actor, id,
                     IF ~Exists(tickets, id) THEN 404
                     ELSE IF tickets[id].userId # actor THEN 403 ELSE 200)
                EXCEPT !.idx = idx]

markReplyAsSeenT(actor, id, idx) ==
    /\ resp = NoResp
    /\ UNCHANGED <<requests, oidT, allocT, oidR, allocR, now, users, procs>>
    /\ IF ~Exists(tickets, id)
       THEN /\ resp' = [Resp("markSeen", "ticket", actor, id, 404) EXCEPT !.idx = idx]
            /\ UNCHANGED <<tickets, writes, outbox>>
       ELSE IF tickets[id].userId # actor
       THEN /\ resp' = [Resp("markSeen", "ticket", actor, id, 403) EXCEPT !.idx = idx]
            /\ UNCHANGED <<tickets, writes, outbox>>
       ELSE IF idx < 0 \/ idx >= Len(tickets[id].timeline)
       THEN /\ resp' = [Resp("markSeen", "ticket", actor, id, 404) EXCEPT !.idx = idx]
            /\ UNCHANGED <<tickets, writes, outbox>>
       ELSE LET doc == tickets[id] IN
            IF Includes(doc.timeline[idx + 1].seenBy, actor)
            THEN /\ resp' = [Resp("markSeen", "ticket", actor, id, 200) EXCEPT !.idx = idx]
                 /\ UNCHANGED <<tickets, writes, outbox>>
            ELSE /\ resp' = Wrote([Resp("markSeen", "ticket", actor, id, 200) EXCEPT !.idx = idx])
                 /\ UNCHANGED <<writes, outbox>>
                 /\ \E last \in LastTicketIds :
                      tickets' = Put(tickets, id, TicketPreValidate(
                        [doc EXCEPT !.timeline = PushSeen(@, idx, actor),
                                    !.updatedAt = now, !.__v = @ + 1], FALSE, last))

TicketNext ==
    \/ \E a \in Actors, b \in TicketBodies : createTicket(a, b)
    \/ \E a \in Actors, id \in IdSpace : getTicketById(a, id)
    \/ \E a \in Actors, id \in IdSpace, s \in TicketStatusInputs, v \in VisitInputs :
          updateTicket(a, id, s, v)
    \/ \E a \in Actors, id \in IdSpace, n \in NoteInputs, f \in FileInputs :
          addCommentT(a, id, n, f)
    \/ \E a \in Actors, id \in IdSpace : deleteTicket(a, id)
    \/ \E a \in Actors, ids \in SUBSET IdSpace : markTicketsAsViewed(a, ids)
    \/ \E a \in Actors, id \in IdSpace, i \in -1..MaxTimeline : markReplyAsSeenT(a, id, i)

\* ------------------------------------------------------------- listings
\* find(query).sort({ createdAt: -1 }): the orders in which the records of S can come
NewestFirst(coll, S) ==
    {seq \in [1..Cardinality(S) -> S] :
        /\ \A i, j \in 1..Cardinality(S) : i # j => seq[i] # seq[j]
        /\ \A i, j \in 1..Cardinality(S) :
               i < j => coll[seq[i]].createdAt >= coll[seq[j]].createdAt}

\* req.query.showAll, 'false' when absent
ShowAllInputs == {"false", "true"}

\* the filter of getTickets ignoring the caller: every ticket for everybody
TicketQueryEverything(actor, showAll) == DOMAIN tickets

\* the filter of getTickets
TicketQuery(actor, showAll) ==
    IF Role(actor) # "admin" THEN {d \in DOMAIN tickets : tickets[d].userId = actor}
    ELSE IF showAll = "false" THEN {d \in DOMAIN tickets : ~tickets[d].viewedByAdmin}
    ELSE DOMAIN tickets

getTickets(actor, showAll) ==
    /\ resp = NoResp
    /\ UNCHANGED <<tickets, requests, oidT, allocT, oidR, allocR, writes, outbox, now, users, procs>>
    /\ \E items \in NewestFirst(tickets, TicketQuery(actor, showAll)) :
          resp' = [Resp("list", "ticket", actor, NoDoc, 200) EXCEPT
                      !.list = [NoListing EXCEPT !.items = items]]

\* req.query.page and req.query.limit; 0 stands for absent, 0 or not a number
PageInputs == 0..3
LimitInputs == 0..3
DefaultLimit == 10
\* parseInt(req.query.page) || 1, parseInt(req.query.limit) || 10
PageOf(q) == IF q = 0 THEN 1 ELSE q
LimitOf(q) == IF q = 0 THEN DefaultLimit ELSE q

\* the filter of getServiceRequests
RequestQuery(actor) ==
    IF Role(actor) # "admin" THEN {d \in DOMAIN requests : requests[d].userId = actor}
    ELSE DOMAIN requests

\* .skip(skip).limit(limit) of a sorted result
SkipLimit(seq, skip, limit) ==
    SubSeq(seq, skip + 1, IF skip + limit < Len(seq) THEN skip + limit ELSE Len(seq))

\* Math.floor in the place of Math.ceil
FloorDiv(total, limit) == total \div limit

\* Math.ceil(total / limit)
CeilDiv(total, limit) ==
    IF total % limit = 0 THEN total \div limit ELSE (total \div limit) + 1

getServiceRequests(actor, pageQuery, limitQuery) ==
    /\ resp = NoResp
    /\ UNCHANGED <<tickets, requests, oidT, allocT, oidR, allocR, writes, outbox, now, users, procs>>
    /\ LET page == PageOf(pageQuery)
           limit == LimitOf(limitQuery)
           skip == (page - 1) * limit
           total == Cardinality(RequestQuery(actor)) IN
       \E all \in NewestFirst(requests, RequestQuery(actor)) :
          resp' = [Resp("list", "request", actor, NoDoc, 200) EXCEPT
                      !.list = [items |-> SkipLimit(all, skip, limit),
                                total |-> total,
                                page |-> page,
                                pages |-> CeilDiv(total, limit),
                                hasMore |-> page * limit < total]]

\* ---------------------------------------- service requests: whole handlers
\* the document ServiceRequest.create builds, with the id chosen by pre('validate')
NewRequest(actor, category, last) ==
    RequestPreValidate(
        [_id |-> oidR + 1, requestId |-> << >>, userId |-> actor,
         category |-> category, status |-> "New", assignedVisitAt |-> NoDate,
         completedAt |-> NoDate, timeline |-> << >>,
         createdAt |-> now, updatedAt |-> now, __v |-> 0], TRUE, last)

LastRequestIds ==
    IF DOMAIN requests = {} THEN {<< >>}
    ELSE {requests[d].requestId : d \in LastCreated(requests)}

createServiceRequestWith(actor, body, read) ==
    /\ resp = NoResp
    /\ UNCHANGED <<tickets, oidT, allocT, procs, users>>
    /\ IF \/ body.category = "" \/ body.title = "" \/ body.description = ""
          \/ body.address = "" \/ body.outletName = "" \/ body.location = ""
       THEN /\ resp' = Resp("create", "request", actor, NoDoc, 400)
            /\ UNCHANGED <<requests, oidR, allocR, writes, outbox, now>>
       ELSE IF actor \notin Users
       THEN \* User.findById cannot cast an admin session id
            /\ resp' = Resp("create", "request", actor, NoDoc, 500)
            /\ UNCHANGED <<requests, oidR, allocR, writes, outbox, now>>
       ELSE \E last \in HookRead(read, LastRequestIds) :
            LET doc == NewRequest(actor, body.category, last) IN
            IF \/ last = ReadError
               \/ body.category \notin RequestCategories \/ RequestIdTaken(doc.requestId)
            THEN /\ resp' = Resp("create", "request", actor, NoDoc, 500)
                 /\ UNCHANGED <<requests, oidR, allocR, writes, outbox, now>>
            ELSE /\ oidT + oidR < MaxDocs
                 /\ Write
                 /\ Send(CreationMails("request", doc._id, actor))
                 /\ requests' = Put(requests, doc._id, doc)
                 /\ oidR' = oidR + 1
                 /\ now' = now + 1
                 /\ allocR' = allocR \cup {SeqOf(doc.requestId)}
                 /\ resp' = Wrote(Resp("create", "request", actor, doc._id, 201))

createServiceRequest(actor, body) == createServiceRequestWith(actor, body, "ok")

getServiceRequestById(actor, id) ==
    /\ resp = NoResp
    /\ UNCHANGED <<tickets, requests, oidT, allocT, oidR, allocR, writes, outbox, now, users, procs>>
    /\ IF ~Exists(requests, id)
       THEN resp' = Resp("read", "request", actor, id, 404)
       ELSE IF Role(actor) # "admin" /\ requests[id].userId # actor
       THEN resp' = Resp("read", "request", actor, id, 403)
       ELSE resp' = Resp("read", "request", actor, id, 200)

\* the same without the branch that clears completedAt
RequestAssignNeverClears(doc, status, visit) ==
    [doc EXCEPT !.completedAt = IF status = "Completed" /\ doc.status # "Completed"
                                THEN now ELSE @,
                !.status = IF status # "" THEN status ELSE @,
                !.assignedVisitAt = IF Truthy(visit) THEN visit ELSE @]

\* the assignments updateServiceRequest makes to the loaded document before save()
RequestAssign(doc, status, visit) ==
    LET completedAt ==
            IF status = "" THEN doc.completedAt
            ELSE IF status = "Completed" /\ doc.status # "Completed" THEN now
            ELSE IF status # "Completed" /\ doc.status = "Completed" THEN NoDate
            ELSE doc.completedAt
    IN  [doc EXCEPT !.completedAt = completedAt,
                    !.status = IF status # "" THEN status ELSE @,
                    !.assignedVisitAt = IF Truthy(visit) THEN visit ELSE @]

\* updateServiceRequest whose save() writes although no path was modified
updateServiceRequestAlwaysSaves(actor, id, status, visit) ==
    /\ resp = NoResp
    /\ UNCHANGED <<tickets, oidT, allocT, oidR, allocR, now, users, procs>>
    /\ IF Role(actor) # "admin"
       THEN /\ resp' = Resp("update", "request", actor, id, 403)
            /\ UNCHANGED <<requests, writes, outbox>>
       ELSE IF ~Exists(requests, id)
       THEN /\ resp' = Resp("update", "request", actor, id, 404)
            /\ UNCHANGED <<requests, writes, outbox>>
       ELSE LET doc == requests[id]
                new == RequestAssign(doc, status, visit) IN
            IF new.status \notin RequestStatuses
            THEN /\ resp' = Resp("update", "request", actor, id, 500)
                 /\ UNCHANGED <<requests, writes, outbox>>
            ELSE /\ resp' = Wrote(Resp("update", "request", actor, id, 200))
                 /\ Write
                 /\ Send(RequestUpdateMails(doc, status, visit))
                 /\ requests' = Put(requests, id, [new EXCEPT !.updatedAt = now])

updateServiceRequest(actor, id, status, visit) ==
    /\ resp = NoResp
    /\ UNCHANGED <<tickets, oidT, allocT, oidR, allocR, now, users, procs>>
    /\ IF Role(actor) # "admin"
       THEN /\ resp' = Resp("update", "request", actor, id, 403)
            /\ UNCHANGED <<requests, writes, outbox>>
       ELSE IF ~Exists(requests, id)
       THEN /\ resp' = Resp("update", "request", actor, id, 404)
            /\ UNCHANGED <<requests, writes, outbox>>
       ELSE LET doc == requests[id]
                new == RequestAssign(doc, status, visit) IN
            IF new.status \notin RequestStatuses
            THEN \* save() rejects a status outside the schema enum
                 /\ resp' = Resp("update", "request", actor, id, 500)
                 /\ UNCHANGED <<requests, writes, outbox>>
            ELSE IF new = doc
            THEN \* save() of a document with no modified path writes nothing
                 /\ resp' = Resp("update", "request", actor, id, 200)
                 /\ UNCHANGED <<requests, writes, outbox>>
            ELSE /\ resp' = Wrote(Resp("update", "request", actor, id, 200))
                 /\ Write
                 /\ Send(RequestUpdateMails(doc, status, visit))
                 /\ \E last \in LastRequestIds :
                      requests' = Put(requests, id,
                          RequestPreValidate([new EXCEPT !.updatedAt = now], FALSE, last))

addCommentR(actor, id, note, files) ==
    /\ resp = NoResp
    /\ UNCHANGED <<tickets, oidT, allocT, oidR, allocR, now, users, procs>>
    /\ IF NoteMissing(note)
       THEN /\ resp' = Resp("addComment", "request", actor, id, 400)
            /\ UNCHANGED <<requests, writes, outbox>>
       ELSE IF ~Exists(requests, id)
       THEN /\ resp' = Resp("addComment", "request", actor, id, 404)
            /\ UNCHANGED <<requests, writes, outbox>>
       ELSE IF Role(actor) # "admin" /\ requests[id].userId # actor
       THEN /\ resp' = Resp("addComment", "request", actor, id, 403)
            /\ UNCHANGED <<requests, writes, outbox>>
       ELSE IF Trim(note) = << >>
       THEN \* save() rejects the entry: note is required after trimming
            /\ resp' = Resp("addComment", "request", actor, id, 500)
            /\ UNCHANGED <<requests, writes, outbox>>
       ELSE LET doc == requests[id] IN
            /\ Len(doc.timeline) < MaxTimeline
            /\ Write
            /\ Send(CommentMails("request", doc, actor, note))
            /\ \E last \in LastRequestIds :
                 requests' = Put(requests, id, RequestPreValidate(
                   [doc EXCEPT !.timeline = TimelinePush(@, NewEntry(note, files, actor)),
                               !.updatedAt = now, !.__v = @ + 1], FALSE, last))
            /\ resp' = Wrote(Resp("addComment", "request", actor, id, 200))

\* deleteServiceRequest with findByIdAndDelete moved ahead of the ownership test
deleteServiceRequestUnchecked(actor, id) ==
    /\ resp = NoResp
    /\ UNCHANGED <<tickets, oidT, allocT, oidR, allocR, now, users, procs>>
    /\ IF ~Exists(requests, id)
       THEN /\ resp' = Resp("delete", "request", actor, id, 404)
            /\ UNCHANGED <<requests, writes, outbox>>
       ELSE /\ Write
            /\ UNCHANGED outbox
            /\ requests' = Remove(requests, id)
            /\ resp' = IF Role(actor) # "admin" /\ requests[id].userId # actor
                       THEN Wrote(Resp("delete", "request", actor, id, 403))
                       ELSE Wrote(Resp("delete", "request", actor, id, 200))

deleteServiceRequest(actor, id) ==
    /\ resp = NoResp
    /\ UNCHANGED <<tickets, oidT, allocT, oidR, allocR, now, users, procs>>
    /\ IF ~Exists(requests, id)
       THEN /\ resp' = Resp("delete", "request", actor, id, 404)
            /\ UNCHANGED <<requests, writes, outbox>>
       ELSE IF Role(actor) # "admin" /\ requests[id].userId # actor
       THEN /\ resp' = Resp("delete", "request", actor, id, 403)
            /\ UNCHANGED <<requests, writes, outbox>>
       ELSE /\ Write
            /\ UNCHANGED outbox
            /\ requests' = Remove(requests, id)
            /\ resp' = Wrote(Resp("delete", "request", actor, id, 200))

\* markReplyAsSeen without the owner test: whoever is logged in may acknowledge
markReplyAsSeenRAnyone(actor, id, idx) ==
    /\ resp = NoResp
    /\ UNCHANGED <<tickets, oidT, allocT, oidR, allocR, now, users, procs>>
    /\ IF ~Exists(requests, id)
       THEN /\ resp' = [Resp("markSeen", "request", actor, id, 404) EXCEPT !.idx = idx]
            /\ UNCHANGED <<requests, writes, outbox>>
       ELSE IF idx < 0 \/ idx >= Len(requests[id].timeline)
       THEN /\ resp' = [Resp("markSeen", "request", actor, id, 404) EXCEPT !.idx = idx]
            /\ UNCHANGED <<requests, writes, outbox>>
       ELSE LET doc == requests[id] IN
            IF Includes(doc.timeline[idx + 1].seenBy, actor)
            THEN /\ resp' = [Resp("markSeen", "request", actor, id, 200) EXCEPT !.idx = idx]
                 /\ UNCHANGED <<requests, writes, outbox>>
            ELSE /\ resp' = Wrote([Resp("markSeen", "request", actor, id, 200) EXCEPT !.idx = idx])
                 /\ UNCHANGED <<writes, outbox>>
                 /\ \E last \in LastRequestIds :
                      requests' = Put(requests, id, RequestPreValidate(
                        [doc EXCEPT !.timeline = PushSeen(@, idx, actor),
                                    !.updatedAt = now, !.__v = @ + 1], FALSE, last))

markReplyAsSeenR(actor, id, idx) ==
    /\ resp = NoResp
    /\ UNCHANGED <<tickets, oidT, allocT, oidR, allocR, now, users, procs>>
    /\ IF ~Exists(requests, id)
       THEN /\ resp' = [Resp("markSeen", "request", actor, id, 404) EXCEPT !.idx = idx]
            /\ UNCHANGED <<requests, writes, outbox>>
       ELSE IF requests[id].userId # actor
       THEN /\ resp' = [Resp("markSeen", "request", actor, id, 403) EXCEPT !.idx = idx]
            /\ UNCHANGED <<requests, writes, outbox>>
       ELSE IF idx < 0 \/ idx >= Len(requests[id].timeline)
       THEN /\ resp' = [Resp("markSeen", "request", actor, id, 404) EXCEPT !.idx = idx]
            /\ UNCHANGED <<requests, writes, outbox>>
       ELSE LET doc == requests[id] IN
            IF Includes(doc.timeline[idx + 1].seenBy, actor)
            THEN /\ resp' = [Resp("markSeen", "request", actor, id, 200) EXCEPT !.idx = idx]
                 /\ UNCHANGED <<requests, writes, outbox>>
            ELSE /\ resp' = Wrote([Resp("markSeen", "request", actor, id, 200) EXCEPT !.idx = idx])
                 /\ UNCHANGED <<writes, outbox>>
                 /\ \E last \in LastRequestIds :
                      requests' = Put(requests, id, RequestPreValidate(
                        [doc EXCEPT !.timeline = PushSeen(@, idx, actor),
                                    !.updatedAt = now, !.__v = @ + 1], FALSE, last))

RequestNext ==
    \/ \E a \in Actors, b \in RequestBodies : createServiceRequest(a, b)
    \/ \E a \in Actors, id \in IdSpace : getServiceRequestById(a, id)
    \/ \E a \in Actors, id \in IdSpace, s \in RequestStatusInputs, v \in VisitInputs :
          updateServiceRequest(a, id, s, v)
    \/ \E a \in Actors, id \in IdSpace, n \in NoteInputs, f \in FileInputs :
          addCommentR(a, id, n, f)
    \/ \E a \in Actors, id \in IdSpace : deleteServiceRequest(a, id)
    \/ \E a \in Actors, id \in IdSpace, i \in -1..MaxTimeline : markReplyAsSeenR(a, id, i)

\* -------------------------------------------- handlers suspended at awaits
Idle(p) == procs[p].pc = "idle"

Started(p, op, kind, actor, id) ==
    [IdleProc EXCEPT !.op = op, !.kind = kind, !.actor = actor, !.id = id]

\* the handler has answered: what stays of it is the response
Done(me, code) ==
    [IdleProc EXCEPT !.op = me.op, !.kind = me.kind, !.attempts = me.attempts, !.code = code]

\* createTicket up to the findOne of pre('validate'): this.ticketId is computed
createTicketRead(p, actor, body) ==
    /\ Idle(p)
    /\ UNCHANGED <<tickets, requests, oidT, allocT, oidR, allocR, writes, outbox, now, users, resp>>
    /\ LET me == Started(p, "create", "ticket", actor, NoDoc) IN
       IF body.category = "" \/ body.title = "" \/ body.description = ""
       THEN procs' = [procs EXCEPT ![p] = Done(me, 400)]
       ELSE IF actor \notin Users \/ body.category \notin Categories
       THEN procs' = [procs EXCEPT ![p] = Done(me, 500)]
       ELSE \E last \in LastTicketIds :
            procs' = [procs EXCEPT ![p] =
                         [me EXCEPT !.pc = "insert", !.category = body.category,
                                    !.hid = NextTicketId(last)]]

\* the insert of Ticket.create, checked by the unique index on ticketId
createTicketInsert(p) ==
    /\ procs[p].pc = "insert"
    /\ procs[p].kind = "ticket"
    /\ UNCHANGED <<requests, oidR, allocR, now, users, resp>>
    /\ IF TicketIdTaken(procs[p].hid)
       THEN \* E11000 duplicate key: the catch block answers 500
            /\ procs' = [procs EXCEPT ![p] = Done([@ EXCEPT !.attempts = @ + 1], 500)]
            /\ UNCHANGED <<tickets, oidT, allocT, writes, outbox>>
       ELSE /\ oidT + oidR < MaxDocs
            /\ Write
            /\ Send(CreationMails("ticket", oidT + 1, procs[p].actor))
            /\ tickets' = Put(tickets, oidT + 1,
                   [NewTicket(procs[p].actor, procs[p].category, << >>)
                       EXCEPT !.ticketId = procs[p].hid])
            /\ oidT' = oidT + 1
            /\ allocT' = allocT \cup {SeqOf(procs[p].hid)}
            /\ procs' = [procs EXCEPT ![p] = Done([@ EXCEPT !.attempts = @ + 1], 201)]

createServiceRequestRead(p, actor, body) ==
    /\ Idle(p)
    /\ UNCHANGED <<tickets, requests, oidT, allocT, oidR, allocR, writes, outbox, now, users, resp>>
    /\ LET me == Started(p, "create", "request", actor, NoDoc) IN
       IF \/ body.category = "" \/ body.title = "" \/ body.description = ""
          \/ body.address = "" \/ body.outletName = "" \/ body.location = ""
       THEN procs' = [procs EXCEPT ![p] = Done(me, 400)]
       ELSE IF actor \notin Users \/ body.category \notin RequestCategories
       THEN procs' = [procs EXCEPT ![p] = Done(me, 500)]
       ELSE \E last \in LastRequestIds :
            procs' = [procs EXCEPT ![p] =
                         [me EXCEPT !.pc = "insert", !.category = body.category,
                                    !.hid = NextRequestId(last)]]

createServiceRequestInsert(p) ==
    /\ procs[p].pc = "insert"
    /\ procs[p].kind = "request"
    /\ UNCHANGED <<tickets, oidT, allocT, now, users, resp>>
    /\ IF RequestIdTaken(procs[p].hid)
       THEN /\ procs' = [procs EXCEPT ![p] = Done([@ EXCEPT !.attempts = @ + 1], 500)]
            /\ UNCHANGED <<requests, oidR, allocR, writes, outbox>>
       ELSE /\ oidT + oidR < MaxDocs
            /\ Write
            /\ Send(CreationMails("request", oidR + 1, procs[p].actor))
            /\ requests' = Put(requests, oidR + 1,
                   [NewRequest(procs[p].actor, procs[p].category, << >>)
                       EXCEPT !.requestId = procs[p].hid])
            /\ oidR' = oidR + 1
            /\ allocR' = allocR \cup {SeqOf(procs[p].hid)}
            /\ procs' = [procs EXCEPT ![p] = Done([@ EXCEPT !.attempts = @ + 1], 201)]

\* markReplyAsSeen up to seenBy.push: the document is loaded, save() is pending
markReplyAsSeenTRead(p, actor, id, idx) ==
    /\ Idle(p)
    /\ UNCHANGED <<tickets, requests, oidT, allocT, oidR, allocR, writes, outbox, now, users, resp>>
    /\ LET me == [Started(p, "markSeen", "ticket", actor, id) EXCEPT !.idx = idx] IN
       IF ~Exists(tickets, id)
       THEN procs' = [procs EXCEPT ![p] = Done(me, 404)]
       ELSE IF tickets[id].userId # actor
       THEN procs' = [procs EXCEPT ![p] = Done(me, 403)]
       ELSE IF idx < 0 \/ idx >= Len(tickets[id].timeline)
       THEN procs' = [procs EXCEPT ![p] = Done(me, 404)]
       ELSE IF Includes(tickets[id].timeline[idx + 1].seenBy, actor)
       THEN procs' = [procs EXCEPT ![p] = Done(me, 200)]
       ELSE procs' = [procs EXCEPT ![p] = [me EXCEPT !.pc = "save", !.v = tickets[id].__v]]

\* the same update sent without the __v condition
SaveSeenUnversioned(coll, id, idx, user, v) ==
    IF Exists(coll, id)
    THEN Put(coll, id, [coll[id] EXCEPT !.timeline = PushSeen(@, idx, user),
                                        !.updatedAt = now, !.__v = @ + 1])
    ELSE coll

\* save() of a $push below an array index: the update is conditioned on __v
SaveSeen(coll, id, idx, user, v) ==
    IF Exists(coll, id) /\ coll[id].__v = v
    THEN Put(coll, id, [coll[id] EXCEPT !.timeline = PushSeen(@, idx, user),
                                        !.updatedAt = now, !.__v = @ + 1])
    ELSE coll

markReplyAsSeenTSave(p) ==
    /\ procs[p].pc = "save"
    /\ procs[p].op = "markSeen"
    /\ procs[p].kind = "ticket"
    /\ UNCHANGED <<requests, oidT, allocT, oidR, allocR, now, users, resp>>
    /\ LET new == SaveSeen(tickets, procs[p].id, procs[p].idx, procs[p].actor, procs[p].v) IN
       IF new = tickets
       THEN \* VersionError / DocumentNotFoundError: the catch block answers 500
            /\ procs' = [procs EXCEPT ![p] = Done(@, 500)]
            /\ UNCHANGED <<tickets, writes, outbox>>
       ELSE /\ UNCHANGED <<writes, outbox>>
            /\ tickets' = new
            /\ procs' = [procs EXCEPT ![p] = Done(@, 200)]

markReplyAsSeenRRead(p, actor, id, idx) ==
    /\ Idle(p)
    /\ UNCHANGED <<tickets, requests, oidT, allocT, oidR, allocR, writes, outbox, now, users, resp>>
    /\ LET me == [Started(p, "markSeen", "request", actor, id) EXCEPT !.idx = idx] IN
       IF ~Exists(requests, id)
       THEN procs' = [procs EXCEPT ![p] = Done(me, 404)]
       ELSE IF requests[id].userId # actor
       THEN procs' = [procs EXCEPT ![p] = Done(me, 403)]
       ELSE IF idx < 0 \/ idx >= Len(requests[id].timeline)
       THEN procs' = [procs EXCEPT ![p] = Done(me, 404)]
       ELSE IF Includes(requests[id].timeline[idx + 1].seenBy, actor)
       THEN procs' = [procs EXCEPT ![p] = Done(me, 200)]
       ELSE procs' = [procs EXCEPT ![p] = [me EXCEPT !.pc = "save", !.v = requests[id].__v]]

markReplyAsSeenRSave(p) ==
    /\ procs[p].pc = "save"
    /\ procs[p].op = "markSeen"
    /\ procs[p].kind = "request"
    /\ UNCHANGED <<tickets, oidT, allocT, oidR, allocR, now, users, resp>>
    /\ LET new == SaveSeen(requests, procs[p].id, procs[p].idx, procs[p].actor, procs[p].v) IN
       IF new = requests
       THEN /\ procs' = [procs EXCEPT ![p] = Done(@, 500)]
            /\ UNCHANGED <<requests, writes, outbox>>
       ELSE /\ UNCHANGED <<writes, outbox>>
            /\ requests' = new
            /\ procs' = [procs EXCEPT ![p] = Done(@, 200)]

\* addComment up to save(): the record is loaded, the caller checked, the entry pushed
\* on the loaded copy
addCommentTRead(p, actor, id, note, files) ==
    /\ Idle(p)
    /\ UNCHANGED <<tickets, requests, oidT, allocT, oidR, allocR, writes, outbox, now, users, resp>>
    /\ LET me == Started(p, "addComment", "ticket", actor, id) IN
       IF NoteMissing(note)
       THEN procs' = [procs EXCEPT ![p] = Done(me, 400)]
       ELSE IF ~Exists(tickets, id)
       THEN procs' = [procs EXCEPT ![p] = Done(me, 404)]
       ELSE IF Role(actor) # "admin" /\ tickets[id].userId # actor
       THEN procs' = [procs EXCEPT ![p] = Done(me, 403)]
       ELSE procs' = [procs EXCEPT ![p] =
                [me EXCEPT !.pc = "save", !.note = note, !.files = files,
                           !.before = {q \in 1..MaxProcs :
                                          /\ procs[q].pc = "save"
                                          /\ procs[q].op = "addComment"
                                          /\ procs[q].kind = "ticket"
                                          /\ procs[q].id = id}]]

\* save() of a push on timeline: a $push with $inc of __v, on whatever is stored
SaveComment(coll, id, entry) ==
    IF Exists(coll, id)
    THEN Put(coll, id, [coll[id] EXCEPT !.timeline = TimelinePush(@, entry),
                                        !.updatedAt = now, !.__v = @ + 1])
    ELSE coll

\* the call p has answered: no other call is behind it any longer
Answered(p, code) ==
    [q \in 1..MaxProcs |->
        IF q = p THEN Done(procs[p], code)
        ELSE [procs[q] EXCEPT !.before = @ \ {p}]]

\* addComment from save() on: validation, the update, the mail, the response
addCommentTSave(p) ==
    /\ procs[p].pc = "save"
    /\ procs[p].op = "addComment"
    /\ procs[p].kind = "ticket"
    /\ UNCHANGED <<requests, oidT, allocT, oidR, allocR, now, users, resp>>
    /\ LET me == procs[p]
           new == SaveComment(tickets, me.id, NewEntry(me.note, me.files, me.actor)) IN
       IF Trim(me.note) = << >> \/ new = tickets
       THEN \* ValidationError (note is required after trimming) or no document left
            /\ procs' = Answered(p, 500)
            /\ UNCHANGED <<tickets, writes, outbox>>
       ELSE /\ Len(tickets[me.id].timeline) < MaxTimeline
            /\ Write
            /\ tickets' = new
            /\ Send(CommentMails("ticket", tickets[me.id], me.actor, me.note))
            /\ procs' = Answered(p, 200)

addCommentRRead(p, actor, id, note, files) ==
    /\ Idle(p)
    /\ UNCHANGED <<tickets, requests, oidT, allocT, oidR, allocR, writes, outbox, now, users, resp>>
    /\ LET me == Started(p, "addComment", "request", actor, id) IN
       IF NoteMissing(note)
       THEN procs' = [procs EXCEPT ![p] = Done(me, 400)]
       ELSE IF ~Exists(requests, id)
       THEN procs' = [procs EXCEPT ![p] = Done(me, 404)]
       ELSE IF Role(actor) # "admin" /\ requests[id].userId # actor
       THEN procs' = [procs EXCEPT ![p] = Done(me, 403)]
       ELSE procs' = [procs EXCEPT ![p] =
                [me EXCEPT !.pc = "save", !.note = note, !.files = files,
                           !.before = {q \in 1..MaxProcs :
                                          /\ procs[q].pc = "save"
                                          /\ procs[q].op = "addComment"
                                          /\ procs[q].kind = "request"
                                          /\ procs[q].id = id}]]

addCommentRSave(p) ==
    /\ procs[p].pc = "save"
    /\ procs[p].op = "addComment"
    /\ procs[p].kind = "request"
    /\ UNCHANGED <<tickets, oidT, allocT, oidR, allocR, now, users, resp>>
    /\ LET me == procs[p]
           new == SaveComment(requests, me.id, NewEntry(me.note, me.files, me.actor)) IN
       IF Trim(me.note) = << >> \/ new = requests
       THEN /\ procs' = Answered(p, 500)
            /\ UNCHANGED <<requests, writes, outbox>>
       ELSE /\ Len(requests[me.id].timeline) < MaxTimeline
            /\ Write
            /\ requests' = new
            /\ Send(CommentMails("request", requests[me.id], me.actor, me.note))
            /\ procs' = Answered(p, 200)

\* the paths updateServiceRequest can assign
PathsOf(doc) == [status |-> doc.status, assignedVisitAt |-> doc.assignedVisitAt,
                 completedAt |-> doc.completedAt]

\* updateServiceRequest up to save(): the document is loaded and assigned
updateServiceRequestRead(p, actor, id, status, visit) ==
    /\ Idle(p)
    /\ UNCHANGED <<tickets, requests, oidT, allocT, oidR, allocR, writes, outbox, now, users, resp>>
    /\ LET me == Started(p, "update", "request", actor, id) IN
       IF Role(actor) # "admin"
       THEN procs' = [procs EXCEPT ![p] = Done(me, 403)]
       ELSE IF ~Exists(requests, id)
       THEN procs' = [procs EXCEPT ![p] = Done(me, 404)]
       ELSE procs' = [procs EXCEPT ![p] =
                [me EXCEPT !.pc = "save", !.status = status, !.visit = visit,
                           !.loaded = PathsOf(requests[id]),
                           !.assigned = RequestAssign(PathsOf(requests[id]), status, visit)]]

\* the paths save() sends: those whose value is not the one that was loaded
ModifiedPaths(loaded, assigned) == {f \in DOMAIN loaded : assigned[f] # loaded[f]}

\* save(): a $set of the modified paths (and updatedAt) on the stored document
SaveModified(doc, loaded, assigned) ==
    [f \in DOMAIN doc |->
        IF f \in ModifiedPaths(loaded, assigned) THEN assigned[f]
        ELSE IF f = "updatedAt" THEN now ELSE doc[f]]

\* updateServiceRequest from save() on: validation, the update, the mail, the response
updateServiceRequestSave(p) ==
    /\ procs[p].pc = "save"
    /\ procs[p].op = "update"
    /\ procs[p].kind = "request"
    /\ UNCHANGED <<tickets, oidT, allocT, oidR, allocR, now, users, resp>>
    /\ LET me == procs[p] IN
       IF me.assigned.status \notin RequestStatuses
       THEN \* save() rejects a status outside the schema enum
            /\ procs' = [procs EXCEPT ![p] = Done(@, 500)]
            /\ UNCHANGED <<requests, writes, outbox>>
       ELSE IF ModifiedPaths(me.loaded, me.assigned) = {}
       THEN \* nothing to save
            /\ procs' = [procs EXCEPT ![p] = Done(@, 200)]
            /\ UNCHANGED <<requests, writes, outbox>>
       ELSE IF ~Exists(requests, me.id)
       THEN \* the update matches no document
            /\ procs' = [procs EXCEPT ![p] = Done(@, 500)]
            /\ UNCHANGED <<requests, writes, outbox>>
       ELSE LET cur == requests[me.id] IN
            /\ Write
            /\ requests' = Put(requests, me.id, SaveModified(cur, me.loaded, me.assigned))
            /\ Send(RequestUpdateMails(
                     [cur EXCEPT !.status = me.loaded.status,
                                 !.assignedVisitAt = me.loaded.assignedVisitAt],
                     me.status, me.visit))
            /\ procs' = [procs EXCEPT ![p] = Done(@, 200)]

\* -------------------------------------------------------------- user profile
\* req.body.name of updateProfile: "" is a missing name
NameInputs == {"", "Uma", "Una"}

\* every timeline entry signed `old` signed `new` instead
Resigned(coll, old, new) ==
    [d \in DOMAIN coll |->
        [coll[d] EXCEPT !.timeline =
            [i \in 1..Len(@) |->
                IF @[i].addedBy = old THEN [@[i] EXCEPT !.addedBy = new] ELSE @[i]]]]

\* updateProfile carrying the new name into the entries the user signed
updateProfileCascading(actor, name) ==
    /\ resp = NoResp
    /\ UNCHANGED <<oidT, allocT, oidR, allocR, writes, outbox, now, procs>>
    /\ IF actor \notin Users
       THEN /\ resp' = Resp("updateProfile", "user", actor, NoDoc, 500)
            /\ UNCHANGED <<users, tickets, requests>>
       ELSE IF name = "" \/ name = users[actor].name
       THEN /\ resp' = Resp("updateProfile", "user", actor, NoDoc, 200)
            /\ UNCHANGED <<users, tickets, requests>>
       ELSE /\ resp' = Wrote(Resp("updateProfile", "user", actor, NoDoc, 200))
            /\ users' = [users EXCEPT ![actor].name = name]
            /\ tickets' = Resigned(tickets, users[actor].name, name)
            /\ requests' = Resigned(requests, users[actor].name, name)

updateProfile(actor, name) ==
    /\ resp = NoResp
    /\ UNCHANGED <<tickets, requests, oidT, allocT, oidR, allocR, writes, outbox, now, procs>>
    /\ IF actor \notin Users
       THEN \* User.findById cannot cast an admin session id
            /\ resp' = Resp("updateProfile", "user", actor, NoDoc, 500)
            /\ UNCHANGED users
       ELSE IF name = "" \/ name = users[actor].name
       THEN \* if (name) user.name = name: no path is modified, save() writes nothing
            /\ resp' = Resp("updateProfile", "user", actor, NoDoc, 200)
            /\ UNCHANGED users
       ELSE /\ resp' = Wrote(Resp("updateProfile", "user", actor, NoDoc, 200))
            /\ users' = [users EXCEPT ![actor].name = name]

\* ------------------------------------------------------ sequential clients
Next ==
    \/ NextRequest
    \/ \E o \in DispatchOutcomes : Dispatch(o)
    \/ TicketNext
    \/ RequestNext

Spec == Init /\ [][Next]_vars

\* ------------------------------------------------------ concurrent creations
NextCreate ==
    \/ Tick
    \/ \E p \in 1..MaxProcs, a \in Actors, b \in TicketBodies : createTicketRead(p, a, b)
    \/ \E p \in 1..MaxProcs : createTicketInsert(p)
    \/ \E p \in 1..MaxProcs, a \in Actors, b \in RequestBodies : createServiceRequestRead(p, a, b)
    \/ \E p \in 1..MaxProcs : createServiceRequestInsert(p)

SpecCreate == Init /\ [][NextCreate]_vars

\* ------------------------------------------------ concurrent acknowledgements
\* the clients send well-formed requests here; what races is the acknowledgement
GoodTicketBody == [category |-> "CCTV", title |-> "t", description |-> "d"]
GoodRequestBody == [category |-> "CCTV", title |-> "t", description |-> "d", address |-> "a",
                    outletName |-> "o", location |-> "l"]

NextSeen ==
    \/ NextRequest
    \/ \E o \in DispatchOutcomes : Dispatch(o)
    \/ \E a \in Users : createTicket(a, GoodTicketBody)
    \/ \E a \in Users : createServiceRequest(a, GoodRequestBody)
    \/ \E a \in AdminIds, id \in IdSpace : addCommentT(a, id, <<"a">>, << >>)
    \/ \E a \in AdminIds, id \in IdSpace : addCommentR(a, id, <<"a">>, << >>)
    \/ \E p \in 1..MaxProcs, a \in Users, id \in IdSpace, i \in 0..MaxTimeline :
          markReplyAsSeenTRead(p, a, id, i)
    \/ \E p \in 1..MaxProcs : markReplyAsSeenTSave(p)
    \/ \E p \in 1..MaxProcs, a \in Users, id \in IdSpace, i \in 0..MaxTimeline :
          markReplyAsSeenRRead(p, a, id, i)
    \/ \E p \in 1..MaxProcs : markReplyAsSeenRSave(p)

SpecSeen == Init /\ [][NextSeen]_vars

\* ------------------------------------------------------ concurrent comments
NextComment ==
    \/ NextRequest
    \/ \E o \in DispatchOutcomes : Dispatch(o)
    \/ createTicket("u1", GoodTicketBody)
    \/ createServiceRequest("u1", GoodRequestBody)
    \/ \E p \in 1..MaxProcs, a \in Actors, id \in IdSpace, n \in {<<"a">>, <<" ", "b">>} :
          addCommentTRead(p, a, id, n, << >>)
    \/ \E p \in 1..MaxProcs : addCommentTSave(p)
    \/ \E p \in 1..MaxProcs, a \in Actors, id \in IdSpace, n \in {<<"a">>, <<" ", "b">>} :
          addCommentRRead(p, a, id, n, << >>)
    \/ \E p \in 1..MaxProcs : addCommentRSave(p)

SpecComment == Init /\ [][NextComment]_vars

\* ------------------------------------------------------------- listings
NextList ==
    \/ NextRequest
    \/ \E o \in DispatchOutcomes : Dispatch(o)
    \/ \E a \in Users : createTicket(a, GoodTicketBody)
    \/ \E a \in Users : createServiceRequest(a, GoodRequestBody)
    \/ \E a \in Actors, ids \in SUBSET IdSpace : markTicketsAsViewed(a, ids)
    \/ \E a \in Actors, id \in IdSpace : deleteTicket(a, id)
    \/ \E a \in Actors, id \in IdSpace : deleteServiceRequest(a, id)
    \/ \E a \in Actors, sa \in ShowAllInputs : getTickets(a, sa)
    \/ \E a \in Actors, pg \in PageInputs, lim \in LimitInputs :
          getServiceRequests(a, pg, lim)
    \/ \E a \in Actors, id \in IdSpace : getTicketById(a, id)
    \/ \E a \in Actors, id \in IdSpace : getServiceRequestById(a, id)
    \/ \E a \in Actors, id \in IdSpace : updateTicket(a, id, "Closed", NoDate)
    \/ \E a \in Actors, id \in IdSpace : updateServiceRequest(a, id, "Completed", NoDate)
    \/ \E a \in Actors, id \in IdSpace, n \in {<< >>, <<"a">>} : addCommentT(a, id, n, << >>)
    \/ \E a \in Actors, id \in IdSpace, n \in {<< >>, <<"a">>} : addCommentR(a, id, n, << >>)
    \/ \E a \in Actors, id \in IdSpace : markReplyAsSeenT(a, id, 0)
    \/ \E a \in Actors, id \in IdSpace : markReplyAsSeenR(a, id, 0)

SpecList == Init /\ [][NextList]_vars

\* ------------------------------------------------------ concurrent updates
NextUpdate ==
    \/ NextRequest
    \/ \E o \in DispatchOutcomes : Dispatch(o)
    \/ createServiceRequest("u1", GoodRequestBody)
    \/ \E p \in 1..MaxProcs, a \in Actors, id \in IdSpace,
          s \in {"", "In Progress", "Completed", "Bogus"}, v \in {NoDate, 5} :
          updateServiceRequestRead(p, a, id, s, v)
    \/ \E p \in 1..MaxProcs : updateServiceRequestSave(p)

SpecUpdate == Init /\ [][NextUpdate]_vars

\* ------------------------------------- creation with a failing collection
NextFault ==
    \/ NextRequest
    \/ \E o \in DispatchOutcomes : Dispatch(o)
    \/ \E a \in Users, r \in ReadOutcomes : createTicketWith(a, GoodTicketBody, r)
    \/ \E a \in Users, r \in ReadOutcomes : createServiceRequestWith(a, GoodRequestBody, r)
    \/ \E a \in Actors, id \in IdSpace, n \in NoteInputs, f \in FileInputs :
          addCommentT(a, id, n, f)
    \/ \E a \in Actors, id \in IdSpace : deleteTicket(a, id)
    \/ \E a \in Actors, id \in IdSpace : deleteServiceRequest(a, id)

SpecFault == Init /\ [][NextFault]_vars

\* ============================================= properties of the specification
HumanIdsDistinct ==
    /\ \A d, e \in DOMAIN tickets : d # e => tickets[d].ticketId # tickets[e].ticketId
    /\ \A d, e \in DOMAIN requests : d # e => requests[d].requestId # requests[e].requestId

\* a creation that passed validation, tried its insert and has answered
CreationAnswered(p) ==
    procs[p].op = "create" /\ procs[p].pc = "idle" /\ procs[p].attempts > 0

\* C1: when creations of one kind run concurrently, in any interleaving of their
\* 'read last record' and 'insert' steps, every one of them succeeds and the stored
\* human identifiers are pairwise distinct.
C1_ConcurrentCreationsAllSucceed ==
    /\ \A p \in 1..MaxProcs : CreationAnswered(p) => procs[p].code = 201
    /\ HumanIdsDistinct

\* C2: a creation whose insert the unique index rejected computes a fresh identifier
\* and tries again; the conflict reaches the caller only after more than one attempt.
C2_ConflictIsRetried ==
    \A p \in 1..MaxProcs :
        CreationAnswered(p) /\ procs[p].code = 500 => procs[p].attempts > 1

\* the target of the last response, when it is a stored record
RespTicket == resp.kind = "ticket" /\ resp.id \in DOMAIN tickets
RespRequest == resp.kind = "request" /\ resp.id \in DOMAIN requests
Members(seq) == {seq[k] : k \in DOMAIN seq}
NoDuplicates(seq) == \A i, j \in DOMAIN seq : i # j => seq[i] # seq[j]

CompletedAtMatchesStatus ==
    \A d \in DOMAIN requests :
        (requests[d].completedAt # NoDate) <=> (requests[d].status = "Completed")

C3_UpdateStep ==
    (resp = NoResp /\ resp'.op = "update" /\ resp'.actor \in AdminIds) =>
        \A s \in RequestStatuses, v \in VisitInputs :
            (/\ resp'.id \in DOMAIN requests
             /\ updateServiceRequest(resp'.actor, resp'.id, s, v)) =>
                LET old == requests[resp'.id]
                    new == requests'[resp'.id] IN
                /\ (s = "Completed" /\ old.status # "Completed") => new.completedAt # NoDate
                /\ (old.status = "Completed" /\ s # "Completed") => new.completedAt = NoDate
                /\ (old.status # "Completed" /\ s # "Completed") =>
                       new.completedAt = old.completedAt

\* C3: an admin's updateStatus of a service request with a status of the enum sets
\* completedAt when the status becomes Completed, empties it when the status leaves
\* Completed, and leaves it alone otherwise; so completedAt is non-empty exactly
\* when the stored status is Completed.
C3_CompletedAtFollowsStatus == []CompletedAtMatchesStatus /\ [][C3_UpdateStep]_vars

C3_Witness ==
    /\ resp.op = "update" /\ resp.code = 200 /\ resp.wrote /\ RespRequest
    /\ requests[resp.id].status = "Completed"
    /\ requests[resp.id].completedAt # NoDate

NonOwner(a, coll, id) == id \in DOMAIN coll /\ Role(a) # "admin" /\ coll[id].userId # a

C4_Step ==
    \A a \in Actors, id \in IdSpace :
        /\ ( /\ NonOwner(a, tickets, id)
             /\ \/ getTicketById(a, id)
                \/ \E n \in NoteInputs, f \in FileInputs : addCommentT(a, id, n, f)
                \/ deleteTicket(a, id)
                \/ \E i \in -1..MaxTimeline : markReplyAsSeenT(a, id, i) )
           => (resp'.code = 403 /\ tickets' = tickets)
        /\ ( /\ NonOwner(a, requests, id)
             /\ \/ getServiceRequestById(a, id)
                \/ \E n \in NoteInputs, f \in FileInputs : addCommentR(a, id, n, f)
                \/ deleteServiceRequest(a, id)
                \/ \E i \in -1..MaxTimeline : markReplyAsSeenR(a, id, i) )
           => (resp'.code = 403 /\ requests' = requests)

\* C4: on an existing record, read, add-comment (with any note, the empty one
\* included), delete and mark-seen (with any index) by an actor who is neither an
\* admin nor the owner answer Forbidden and leave the record unchanged.
C4_NonOwnerAlwaysForbidden == [][C4_Step]_vars

\* C5 as stated: an admin is never answered Forbidden, whatever the operation.
C5_AdminNeverForbidden == resp.actor \in AdminIds => resp.code # 403

\* C5: an admin is never answered Forbidden by read, update-status, delete,
\* add-comment or bulk mark-viewed, whoever owns the record; mark-seen is left to
\* the owner, and an admin's mark-seen on an existing record answers Forbidden.
C5_AdminForbiddenOnlyOnMarkSeen ==
    resp.actor \in AdminIds =>
        ((resp.code = 403) <=> (resp.op = "markSeen" /\ (RespTicket \/ RespRequest)))

C5_Witness ==
    /\ resp.actor \in AdminIds /\ resp.op = "addComment" /\ resp.code = 200
    /\ RespTicket /\ tickets[resp.id].userId # resp.actor

C6_Step ==
    (resp'.actor \in Users /\ resp'.op \in {"update", "markViewed"}) =>
        (resp'.code = 403 /\ tickets' = tickets /\ requests' = requests)

\* C6: update-status and bulk mark-viewed by a non-admin, the owner included,
\* answer Forbidden and change no stored record.
C6_NonAdminUpdateDenied == [][C6_Step]_vars

C6_Witness ==
    /\ resp.op = "update" /\ resp.code = 403 /\ RespRequest
    /\ requests[resp.id].userId = resp.actor

SeenByHasNoDuplicates ==
    /\ \A d \in DOMAIN tickets : \A i \in DOMAIN tickets[d].timeline :
           NoDuplicates(tickets[d].timeline[i].seenBy)
    /\ \A d \in DOMAIN requests : \A i \in DOMAIN requests[d].timeline :
           NoDuplicates(requests[d].timeline[i].seenBy)

AlreadySeen(coll, a, id, i) ==
    /\ id \in DOMAIN coll /\ coll[id].userId = a /\ i < Len(coll[id].timeline)
    /\ a \in Members(coll[id].timeline[i + 1].seenBy)

C7_Step ==
    \A a \in Actors, id \in IdSpace, i \in 0..(MaxTimeline - 1) :
        /\ (AlreadySeen(tickets, a, id, i) /\ markReplyAsSeenT(a, id, i)) =>
               (tickets' = tickets /\ resp'.code = 200 /\ ~resp'.wrote)
        /\ (AlreadySeen(requests, a, id, i) /\ markReplyAsSeenR(a, id, i)) =>
               (requests' = requests /\ resp'.code = 200 /\ ~resp'.wrote)

\* C7: markSeen repeated with the same entry and user answers OK, writes nothing and
\* leaves the record as it was; no user is ever twice in a seenBy.
C7_MarkSeenIdempotent == []SeenByHasNoDuplicates /\ [][C7_Step]_vars

C7_Witness ==
    /\ resp.op = "markSeen" /\ resp.code = 200 /\ ~resp.wrote /\ RespTicket
    /\ resp.actor \in Members(tickets[resp.id].timeline[resp.idx + 1].seenBy)

Appended(old, new) ==
    /\ Len(new) = Len(old) + 1
    /\ new[Len(new)].seenBy = << >>
    /\ SubSeq(new, 1, Len(old)) = old

C8_Step ==
    /\ (resp = NoResp /\ resp'.op = "addComment" /\ resp'.code = 200
           /\ resp'.kind = "ticket") =>
           Appended(tickets[resp'.id].timeline, tickets'[resp'.id].timeline)
    /\ (resp = NoResp /\ resp'.op = "addComment" /\ resp'.code = 200
           /\ resp'.kind = "request") =>
           Appended(requests[resp'.id].timeline, requests'[resp'.id].timeline)

\* C8: a successful addComment makes the timeline one entry longer, the new entry
\* last and with an empty seenBy, every earlier entry where and as it was.
C8_AppendAtEnd == [][C8_Step]_vars

C8_Witness ==
    /\ resp.op = "addComment" /\ resp.code = 200 /\ RespRequest
    /\ Len(requests[resp.id].timeline) = 2

EntriesPreserved(old, new) ==
    /\ Len(new) >= Len(old)
    /\ \A i \in 1..Len(old) :
           /\ new[i].note = old[i].note
           /\ new[i].images = old[i].images
           /\ new[i].addedBy = old[i].addedBy
           /\ new[i].addedAt = old[i].addedAt
           /\ Members(old[i].seenBy) \subseteq Members(new[i].seenBy)
    /\ \A i \in (Len(old) + 1)..Len(new) : new[i].seenBy = << >>

C9_Step ==
    /\ \A d \in (DOMAIN tickets) \cap (DOMAIN tickets') :
           EntriesPreserved(tickets[d].timeline, tickets'[d].timeline)
    /\ \A d \in (DOMAIN requests) \cap (DOMAIN requests') :
           EntriesPreserved(requests[d].timeline, requests'[d].timeline)

\* C9: whatever is done to a stored record, no timeline entry is removed or moved,
\* the note, attachments, addedBy and addedAt of an entry never change, and a seenBy
\* starts empty and only grows.
C9_TimelineAppendOnly == [][C9_Step]_vars

C9_Witness ==
    /\ resp.op = "update" /\ resp.wrote /\ RespTicket
    /\ Len(tickets[resp.id].timeline) = 1

C10_Step ==
    /\ \A d \in (DOMAIN tickets) \cap (DOMAIN tickets') :
           \A i \in DOMAIN tickets[d].timeline :
               Members(tickets[d].timeline[i].seenBy)
                   \subseteq Members(tickets'[d].timeline[i].seenBy)
    /\ \A d \in (DOMAIN requests) \cap (DOMAIN requests') :
           \A i \in DOMAIN requests[d].timeline :
               Members(requests[d].timeline[i].seenBy)
                   \subseteq Members(requests'[d].timeline[i].seenBy)

\* C10: when markSeen calls of one user for one entry both load the record before
\* either saves, the entry's seenBy ends with that user once, and no
\* acknowledgement already there is lost.
C10_RacingMarkSeenKeepsSet == []SeenByHasNoDuplicates /\ [][C10_Step]_vars

\* both handlers loaded version 1 of the only ticket; one saved, the other was refused
C10_Witness ==
    /\ procs[1] = Done(Started(1, "markSeen", "ticket", "u1", 1), 200)
    /\ procs[2] = Done(Started(2, "markSeen", "ticket", "u1", 1), 500)
    /\ DOMAIN tickets = {1}
    /\ Len(tickets[1].timeline) = 1
    /\ tickets[1].timeline[1].seenBy = <<"u1">>
    /\ tickets[1].__v = 2

\* the timeline a comment call of the given kind is aimed at
TimelineOf(kind, id, T, R) == IF kind = "ticket" THEN T[id].timeline ELSE R[id].timeline

CommentSaved(p) ==
    /\ procs[p].pc = "save" /\ procs[p].op = "addComment"
    /\ procs'[p].pc = "idle" /\ procs'[p].code = 200

C11_Step ==
    \A p \in 1..MaxProcs :
        CommentSaved(p) =>
            LET old == TimelineOf(procs[p].kind, procs[p].id, tickets, requests)
                new == TimelineOf(procs[p].kind, procs[p].id, tickets', requests') IN
            \* no lost append: everything stored stays, the call's entry is added
            /\ Len(new) = Len(old) + 1
            /\ SubSeq(new, 1, Len(old)) = old
            /\ new[Len(new)].note = Trim(procs[p].note)
            \* call order: no call made earlier is still to append
            /\ procs[p].before = {}

\* C11: of addComment calls for one record whose loads and saves interleave, every
\* successful call adds its entry without removing another, and the entries are
\* appended in the order in which the calls were made.
C11_CommentsInCallOrder == [][C11_Step]_vars

C12_Step ==
    (resp = NoResp /\ resp'.op = "addComment") =>
        \A f \in FileInputs :
            /\ addCommentT(resp'.actor, resp'.id, << >>, f) =>
                   /\ resp'.code = 400
                   /\ tickets' = tickets /\ requests' = requests
                   /\ outbox' = outbox
            /\ addCommentR(resp'.actor, resp'.id, << >>, f) =>
                   /\ resp'.code = 400
                   /\ tickets' = tickets /\ requests' = requests
                   /\ outbox' = outbox

\* C12: addComment with an empty or missing note is answered 400, whoever calls it and
\* whether or not the record exists; the timeline (the whole store) is what it was
\* and no mail is queued.
C12_EmptyNoteRejected == [][C12_Step]_vars

C12_Witness ==
    /\ resp.op = "addComment" /\ resp.code = 400 /\ RespTicket
    /\ Exists(tickets, resp.id)
    /\ tickets[resp.id].userId = resp.actor
    /\ Len(tickets[resp.id].timeline) = 1

\* the outcomes ValidationError, Forbidden and NotFound
Refusals == {400, 403, 404}

C13_Step ==
    (resp = NoResp /\ resp'.code \in Refusals) =>
        /\ tickets' = tickets
        /\ requests' = requests
        /\ outbox' = outbox

\* C13: a create, update, addComment, delete, markSeen or bulk markViewed that is
\* answered 400, 403 or 404 leaves every stored ticket and service request as it was
\* and queues no mail.
C13_RefusalsChangeNothing == [][C13_Step]_vars

C13_Witness ==
    /\ resp.op = "delete" /\ resp.code = 403 /\ RespRequest
    /\ requests[resp.id].userId # resp.actor
    /\ requests[resp.id].timeline # << >>

C14_Step ==
    /\ oidT' # oidT =>
           \A n \in allocT : SeqOf(tickets'[oidT'].ticketId) > n
    /\ oidR' # oidR =>
           \A n \in allocR : SeqOf(requests'[oidR'].requestId) > n

\* C14: over creations made one after the other, with deletions in between, the number
\* in each new identifier of a kind is greater than the number in every identifier of
\* that kind given out before, so the identifier of a deleted record is never given
\* out again.
C14_SuffixesOnlyGrow == [][C14_Step]_vars

\* the identifier with prefix pre and number i written with six digits
Numbered(pre, i) == pre \o PadStart(ToDigits(i), PadWidth)

\* no record of the collection has been deleted: the k records created are all stored
NoneDeleted(coll, k) == DOMAIN coll = 1..k

C15_Literal ==
    /\ (NoneDeleted(tickets, oidT) /\ oidT >= 1) =>
           tickets[1].ticketId = <<"T", "K", "T", "-", "0", "0", "0", "0", "0", "1">>
    /\ (NoneDeleted(tickets, oidT) /\ oidT >= 2) =>
           tickets[2].ticketId = <<"T", "K", "T", "-", "0", "0", "0", "0", "0", "2">>
    /\ (NoneDeleted(requests, oidR) /\ oidR >= 1) =>
           requests[1].requestId = <<"S", "R", "V", "-", "0", "0", "0", "0", "0", "1">>
    /\ (NoneDeleted(requests, oidR) /\ oidR >= 2) =>
           requests[2].requestId = <<"S", "R", "V", "-", "0", "0", "0", "0", "0", "2">>

\* C15: starting from an empty collection and as long as nothing has been deleted,
\* the i-th record created has the identifier made of the prefix of its kind and i
\* written with six digits: TKT-000001, TKT-000002, ... and SRV-000001, SRV-000002, ...
C15_SequentialIdentifiers ==
    /\ NoneDeleted(tickets, oidT) =>
           \A i \in 1..oidT : tickets[i].ticketId = Numbered(TicketPrefix, i)
    /\ NoneDeleted(requests, oidR) =>
           \A i \in 1..oidR : requests[i].requestId = Numbered(RequestPrefix, i)
    /\ C15_Literal

C15_Witness ==
    /\ oidT = 2 /\ NoneDeleted(tickets, 2)
    /\ tickets[2].ticketId = <<"T", "K", "T", "-", "0", "0", "0", "0", "0", "2">>

\* every stored record has an identifier of its kind, shared with no other record
IdentifiersInPlace(T, R) ==
    /\ \A d \in DOMAIN T : Len(T[d].ticketId) > Len(TicketPrefix)
                            /\ SubSeq(T[d].ticketId, 1, Len(TicketPrefix)) = TicketPrefix
    /\ \A d \in DOMAIN R : Len(R[d].requestId) > Len(RequestPrefix)
                            /\ SubSeq(R[d].requestId, 1, Len(RequestPrefix)) = RequestPrefix
    /\ \A d, e \in DOMAIN T : d # e => T[d].ticketId # T[e].ticketId
    /\ \A d, e \in DOMAIN R : d # e => R[d].requestId # R[e].requestId

C16_Step ==
    /\ IdentifiersInPlace(tickets', requests')
    /\ \A d \in DOMAIN tickets \cap DOMAIN tickets' :
           tickets'[d].ticketId = tickets[d].ticketId
    /\ \A d \in DOMAIN requests \cap DOMAIN requests' :
           requests'[d].requestId = requests[d].requestId

\* C16: every stored ticket and service request carries a human identifier, no two
\* records of a kind carry the same one, and no operation (update, addComment, markSeen,
\* markViewed or another creation) changes the identifier of a stored record.
C16_IdentifierFixed == [][C16_Step]_vars

C16_Witness ==
    /\ resp.op = "addComment" /\ resp.code = 200 /\ RespRequest
    /\ requests[resp.id].requestId = <<"S", "R", "V", "-", "0", "0", "0", "0", "0", "1">>
    /\ requests[resp.id].status = "Completed"
    /\ requests[resp.id].timeline # << >>

\* the message has the line that says the service request has been completed
MentionsCompleted(msg) ==
    \E i \in DOMAIN msg : msg[i] = "Your service request has been completed."

RequestUpdated ==
    resp = NoResp /\ resp'.op = "update" /\ resp'.kind = "request" /\ resp'.code = 200

C17_Step ==
    \* created New, with no completion time
    /\ oidR' # oidR =>
           /\ requests'[oidR'].status = "New"
           /\ requests'[oidR'].completedAt = NoDate
    \* New (or any other status) -> Completed by an admin
    /\ (/\ RequestUpdated
        /\ requests[resp'.id].status # "Completed"
        /\ requests'[resp'.id].status = "Completed") =>
           /\ Role(resp'.actor) = "admin"
           /\ requests'[resp'.id].completedAt # NoDate
           /\ outbox = << >>
           /\ Len(outbox') = 1
           /\ outbox'[1].to = requests[resp'.id].userId
           /\ outbox'[1].id = resp'.id
           /\ MentionsCompleted(outbox'[1].msg)
    \* Completed -> any other status
    /\ (/\ RequestUpdated
        /\ requests[resp'.id].status = "Completed"
        /\ requests'[resp'.id].status # "Completed") =>
           requests'[resp'.id].completedAt = NoDate

\* C17: a service request is created with status New and no completion time; when an
\* admin sets it to Completed the completion time is set and exactly one mail is
\* queued, to the owner, whose message says the request has been completed; when the
\* status is then set to In Progress the completion time is empty again.
C17_CompletionScenario == [][C17_Step]_vars

C17_Witness ==
    /\ resp.op = "update" /\ resp.code = 200 /\ RespRequest
    /\ requests[resp.id].status = "Completed"
    /\ requests[resp.id].completedAt # NoDate
    /\ Len(outbox) = 1
    /\ outbox[1].to = requests[resp.id].userId
    /\ MentionsCompleted(outbox[1].msg)

C18_Step ==
    \A a \in AdminIds, ids \in (SUBSET IdSpace) \ {{}} :
        markTicketsAsViewed(a, ids) =>
            /\ resp'.code = 200
            /\ DOMAIN tickets' = DOMAIN tickets
            /\ \A d \in DOMAIN tickets :
                   /\ d \in ids => tickets'[d].viewedByAdmin
                   /\ d \notin ids => tickets'[d] = tickets[d]
            /\ requests' = requests

\* C18: markViewed by an admin with a non-empty set of ticket ids succeeds, also when
\* some or all of the ids match no ticket; afterwards every stored ticket named in the
\* set has viewedByAdmin set and every other ticket is as it was.
C18_BulkMarkViewed == [][C18_Step]_vars

C18_Witness ==
    /\ resp.op = "markViewed" /\ resp.code = 200 /\ resp.wrote
    /\ \E d, e \in DOMAIN tickets : tickets[d].viewedByAdmin /\ ~tickets[e].viewedByAdmin

\* the record a mail is about is stored
Persisted(m, T, R) ==
    IF m.kind = "ticket" THEN m.id \in DOMAIN T ELSE m.id \in DOMAIN R

C19_Step ==
    \* whatever becomes of a send, the response and the store are what they were
    /\ \A o \in DispatchOutcomes :
           Dispatch(o) => resp' = resp /\ tickets' = tickets /\ requests' = requests
    \* a mail is queued only by a create, update or addComment that has been persisted
    /\ Len(outbox') > Len(outbox) =>
           /\ resp'.op \in {"create", "update", "addComment"}
           /\ resp'.code \in {200, 201}
           /\ resp'.wrote
           /\ \A i \in DOMAIN outbox' : Persisted(outbox'[i], tickets', requests')
           /\ tickets' # tickets \/ requests' # requests

\* C19: the response and the stored records of create, update and addComment are the
\* same whether the mail is sent, fails or never completes, and a mail is queued only
\* after the record has been written.
C19_DispatchDoesNotMatter == [][C19_Step]_vars

C19_Witness ==
    /\ resp.op = "create" /\ resp.code = 201 /\ RespTicket
    /\ outbox = << >>

\* the request names no status or the stored one, and no visit or the stored one
NothingToChange(doc, status, visit) ==
    /\ status = "" \/ status = doc.status
    /\ visit = NoDate \/ visit = doc.assignedVisitAt

NothingWritten ==
    /\ resp'.code = 200 /\ ~resp'.wrote
    /\ tickets' = tickets /\ requests' = requests
    /\ writes' = writes /\ outbox' = outbox

C20_Step ==
    (resp = NoResp /\ resp'.op = "update" /\ resp'.actor \in AdminIds) =>
        LET a == resp'.actor
            id == resp'.id IN
        \A v \in VisitInputs :
            /\ \A s \in TicketStatusInputs :
                   (Exists(tickets, id) /\ updateTicket(a, id, s, v)) =>
                       /\ NothingToChange(tickets[id], s, v) => NothingWritten
                       /\ tickets'[id].assignedVisitAt # tickets[id].assignedVisitAt =>
                              v # NoDate /\ tickets'[id].assignedVisitAt = v
            /\ \A s \in RequestStatusInputs :
                   (Exists(requests, id) /\ updateServiceRequest(a, id, s, v)) =>
                       /\ NothingToChange(requests[id], s, v) => NothingWritten
                       /\ requests'[id].assignedVisitAt # requests[id].assignedVisitAt =>
                              v # NoDate /\ requests'[id].assignedVisitAt = v

\* C20: an update by an admin whose status is absent or equal to the stored one and
\* whose visit time is absent or equal to the stored one writes nothing: the record,
\* updatedAt included, is what it was; assignedVisitAt takes a new value only when a
\* visit time different from the stored one is given.
C20_NoChangeNoWrite == [][C20_Step]_vars

C20_Witness ==
    /\ resp.op = "update" /\ resp.code = 200 /\ ~resp.wrote /\ RespRequest
    /\ requests[resp.id].assignedVisitAt # NoDate
    /\ requests[resp.id].updatedAt # requests[resp.id].createdAt

\* an update answered 200 on a stored record of the kind
TicketUpdated ==
    resp = NoResp /\ resp'.op = "update" /\ resp'.kind = "ticket" /\ resp'.code = 200

\* exactly one mail is queued, for the owner of the record
OneMailTo(owner, id) ==
    /\ outbox = << >>
    /\ Len(outbox') = 1
    /\ outbox'[1].to = owner
    /\ outbox'[1].id = id

C21_Step ==
    /\ TicketUpdated =>
           LET old == tickets[resp'.id]
               new == tickets'[resp'.id] IN
           IF new.status # old.status \/ new.assignedVisitAt # old.assignedVisitAt
           THEN OneMailTo(old.userId, resp'.id)
           ELSE outbox' = outbox
    /\ RequestUpdated =>
           LET old == requests[resp'.id]
               new == requests'[resp'.id] IN
           IF new.status # old.status \/ new.assignedVisitAt # old.assignedVisitAt
           THEN OneMailTo(old.userId, resp'.id)
           ELSE outbox' = outbox

\* C21: an update by an admin that is answered 200 queues exactly one mail, for the
\* owner, when it changed the status or set assignedVisitAt to another instant, and
\* queues no mail when it changed neither.
C21_OneMailPerChange == [][C21_Step]_vars

C22_Step ==
    /\ \A a \in Actors, sa \in ShowAllInputs :
           getTickets(a, sa) =>
               LET listed == Members(resp'.list.items) IN
               /\ NoDuplicates(resp'.list.items)
               /\ Role(a) # "admin" =>
                      listed = {d \in DOMAIN tickets : tickets[d].userId = a}
               /\ (Role(a) = "admin" /\ sa = "false") =>
                      listed = {d \in DOMAIN tickets : tickets[d].viewedByAdmin # TRUE}
               /\ (Role(a) = "admin" /\ sa = "true") => listed = DOMAIN tickets
    /\ \A a \in Actors, pg \in PageInputs, lim \in LimitInputs :
           getServiceRequests(a, pg, lim) =>
               LET listed == Members(resp'.list.items) IN
               /\ Role(a) # "admin" =>
                      /\ \A d \in listed : requests[d].userId = a
                      /\ resp'.list.total =
                             Cardinality({d \in DOMAIN requests : requests[d].userId = a})
               /\ Role(a) = "admin" =>
                      /\ listed \subseteq DOMAIN requests
                      /\ resp'.list.total = Cardinality(DOMAIN requests)

\* C22: the listing of a caller who is not an admin holds that caller's own records
\* and no record of another user; the ticket listing of an admin holds exactly the
\* tickets not marked viewedByAdmin, and every ticket when showAll is asked for; the
\* service-request listing of an admin ranges over all service requests.
C22_ListingVisibility == [][C22_Step]_vars

C22_Witness ==
    /\ resp.op = "list" /\ resp.kind = "ticket" /\ Role(resp.actor) = "admin"
    /\ Len(resp.list.items) = 1
    /\ Cardinality(DOMAIN tickets) = 2
    /\ \E d \in DOMAIN tickets : tickets[d].viewedByAdmin

\* the _id of the records of a collection that were created and are no longer stored
Deleted(coll, k) == (1..k) \ DOMAIN coll

\* a read, update, addComment or markSeen aimed at a deleted record is never carried
\* out; it is answered 404 unless the role test of the route or the test of the body,
\* which come before the lookup, has already refused it
AnsweredNotFound ==
    /\ resp'.code # 200
    /\ resp'.code = 404 \/ (resp'.op = "update" /\ Role(resp'.actor) # "admin" /\ resp'.code = 403)
                        \/ (resp'.op = "addComment" /\ resp'.code = 400)

LaterOps == {"read", "update", "addComment", "markSeen"}

C23_Step ==
    \* the owner and every admin can delete
    /\ \A a \in Actors, id \in IdSpace :
           /\ (/\ Exists(tickets, id)
               /\ Role(a) = "admin" \/ tickets[id].userId = a
               /\ deleteTicket(a, id)) =>
                  /\ resp'.code = 200
                  /\ tickets' = [d \in DOMAIN tickets \ {id} |-> tickets[d]]
                  /\ requests' = requests
                  /\ outbox' = outbox
           /\ (/\ Exists(requests, id)
               /\ Role(a) = "admin" \/ requests[id].userId = a
               /\ deleteServiceRequest(a, id)) =>
                  /\ resp'.code = 200
                  /\ requests' = [d \in DOMAIN requests \ {id} |-> requests[d]]
                  /\ tickets' = tickets
                  /\ outbox' = outbox
    \* what is deleted stays deleted
    /\ Deleted(tickets, oidT) \subseteq Deleted(tickets', oidT')
    /\ Deleted(requests, oidR) \subseteq Deleted(requests', oidR')
    \* and every later operation on it is answered NotFound
    /\ (resp = NoResp /\ resp'.op \in LaterOps /\ resp'.kind = "ticket"
           /\ resp'.id \in Deleted(tickets, oidT)) => AnsweredNotFound
    /\ (resp = NoResp /\ resp'.op \in LaterOps /\ resp'.kind = "request"
           /\ resp'.id \in Deleted(requests, oidR)) => AnsweredNotFound
    \* it is in no listing
    /\ (resp = NoResp /\ resp'.op = "list" /\ resp'.kind = "ticket") =>
           Members(resp'.list.items) \cap Deleted(tickets, oidT) = {}
    /\ (resp = NoResp /\ resp'.op = "list" /\ resp'.kind = "request") =>
           Members(resp'.list.items) \cap Deleted(requests, oidR) = {}

CreationAborted ==
    /\ resp'.code = 500
    /\ tickets' = tickets /\ requests' = requests
    /\ oidT' = oidT /\ oidR' = oidR
    /\ allocT' = allocT /\ allocR' = allocR
    /\ outbox' = outbox

C24_Step ==
    \A a \in Users :
        /\ createTicketWith(a, GoodTicketBody, "error") => CreationAborted
        /\ createServiceRequestWith(a, GoodRequestBody, "error") => CreationAborted

\* C24: when the read of the newest record in pre('validate') fails, the creation is
\* answered with an error, no record is stored and no identifier is given out, be it
\* the first one or the one after a record read earlier.
C24_AllocationFailsClosed == [][C24_Step]_vars

\* with valid bodies only, a user's creation on an empty collection can be answered
\* 500 by nothing but the failed read
C24_Witness ==
    /\ resp.op = "create" /\ resp.code = 500 /\ resp.kind = "ticket"
    /\ resp.actor \in Users
    /\ tickets = << >> /\ oidT = 0 /\ allocT = {}

\* C25: when two updates of one service request by admins interleave, both loading it
\* before either saves and each saving the paths it modified, every stored state
\* still has completedAt non-empty exactly when the status is Completed: the status
\* of one call is never stored with the completedAt of the other.
C25_InterleavedUpdatesConsistent ==
    \A d \in DOMAIN requests :
        /\ requests[d].status = "Completed" => requests[d].completedAt # NoDate
        /\ requests[d].status # "Completed" => requests[d].completedAt = NoDate

StatusesInEnum ==
    /\ \A d \in DOMAIN tickets : tickets[d].status \in TicketStatuses
    /\ \A d \in DOMAIN requests : requests[d].status \in RequestStatuses

C26_Step ==
    \A a \in Actors, id \in IdSpace, v \in VisitInputs :
        /\ \A s \in TicketStatusInputs \ (TicketStatuses \cup {""}) :
               (Exists(tickets, id) /\ updateTicket(a, id, s, v)) =>
                   tickets'[id].status = tickets[id].status
        /\ \A s \in RequestStatusInputs \ (RequestStatuses \cup {""}) :
               (Exists(requests, id) /\ updateServiceRequest(a, id, s, v)) =>
                   requests'[id].status = requests[id].status

\* C26: in every state the status of every stored ticket is New, In Progress or
\* Closed and the status of every stored service request is New, In Progress,
\* Completed or Rejected; an update that names a status outside the set of its kind
\* leaves the stored status as it was.
C26_StatusInEnum == []StatusesInEnum /\ [][C26_Step]_vars

C27_Step ==
    (resp = NoResp /\ resp'.op = "update" /\ resp'.actor \in AdminIds) =>
        LET a == resp'.actor
            id == resp'.id IN
        \A v \in VisitInputs :
            /\ \A t \in TicketStatuses :
                   (/\ Exists(tickets, id)
                    /\ tickets[id].status \in TicketStatuses
                    /\ updateTicket(a, id, t, v)) =>
                       resp'.code = 200 /\ tickets'[id].status = t
            /\ \A t \in RequestStatuses :
                   (/\ Exists(requests, id)
                    /\ requests[id].status \in RequestStatuses
                    /\ updateServiceRequest(a, id, t, v)) =>
                       resp'.code = 200 /\ requests'[id].status = t

\* C27: no status is final: whatever status of its kind a ticket or service request
\* has, an update by an admin naming any status of the kind is answered 200 and leaves
\* the record with that status, so a Closed, Completed or Rejected record can be put
\* back to New or In Progress.
C27_NoTerminalStatus == [][C27_Step]_vars

\* a ticket put back to New: the write changed nothing but the status
C27_Witness ==
    /\ resp.op = "update" /\ resp.code = 200 /\ resp.wrote /\ RespTicket
    /\ tickets[resp.id].status = "New"
    /\ tickets[resp.id].assignedVisitAt = NoDate

\* what a successful addComment puts in the queue
CommentMailed(a, doc, n) ==
    IF Role(a) = "admin"
    THEN /\ OneMailTo(doc.userId, doc._id)
         /\ outbox'[1].msg = n
         /\ outbox'[1].visit = doc.assignedVisitAt
    ELSE outbox' = outbox

C28_Step ==
    (resp = NoResp /\ resp'.op = "addComment" /\ resp'.code = 200) =>
        \A n \in NoteInputs, f \in FileInputs :
            /\ addCommentT(resp'.actor, resp'.id, n, f) =>
                   CommentMailed(resp'.actor, tickets[resp'.id], n)
            /\ addCommentR(resp'.actor, resp'.id, n, f) =>
                   CommentMailed(resp'.actor, requests[resp'.id], n)

\* C28: a successful addComment by an admin queues exactly one mail, for the owner of
\* the record, carrying the note as it was sent and the assignedVisitAt the record
\* has; a successful addComment by the owner queues none.
C28_CommentMail == [][C28_Step]_vars

C28_Witness ==
    /\ resp.op = "addComment" /\ resp.code = 200 /\ RespTicket
    /\ Role(resp.actor) = "admin"
    /\ Len(outbox) = 1
    /\ outbox[1].msg = <<" ", "b">>
    /\ outbox[1].to = tickets[resp.id].userId
    /\ outbox[1].visit = 5
    /\ tickets[resp.id].assignedVisitAt = 5

C29_Step ==
    (resp = NoResp /\ resp'.op = "markSeen") =>
        /\ (/\ resp'.kind = "ticket"
            /\ Exists(tickets, resp'.id)
            /\ tickets[resp'.id].userId = resp'.actor
            /\ resp'.idx >= Len(tickets[resp'.id].timeline))
               => (resp'.code = 404 /\ ~resp'.wrote /\ tickets' = tickets)
        /\ (/\ resp'.kind = "request"
            /\ Exists(requests, resp'.id)
            /\ requests[resp'.id].userId = resp'.actor
            /\ resp'.idx >= Len(requests[resp'.id].timeline))
               => (resp'.code = 404 /\ ~resp'.wrote /\ requests' = requests)

\* C29: markSeen by the owner with an entry index at or past the end of the timeline
\* (any index when the timeline is empty) is answered 404 Not Found, and the record,
\* every seenBy of its timeline included, stays as it was.
C29_SeenIndexOutOfBounds == [][C29_Step]_vars

C29_Witness ==
    /\ resp # NoResp
    /\ resp.op = "markSeen"
    /\ resp.kind = "ticket"
    /\ resp.code = 404
    /\ Exists(tickets, resp.id)
    /\ tickets[resp.id].userId = resp.actor
    /\ Len(tickets[resp.id].timeline) >= 1
    /\ resp.idx = Len(tickets[resp.id].timeline)
    /\ \A i \in 1..Len(tickets[resp.id].timeline) : tickets[resp.id].timeline[i].seenBy = << >>

\* what a page of `lim` items at page `pg` is, of the matching requests of `actor`
PageOfListing(L, actor, pg, lim) ==
    LET T == Cardinality(RequestQuery(actor))
        offset == (pg - 1) * lim IN
    /\ L.total = T
    /\ L.page = pg
    /\ Len(L.items) <= lim
    /\ Len(L.items) = IF T - offset <= 0 THEN 0
                      ELSE IF T - offset < lim THEN T - offset ELSE lim
    /\ \E all \in NewestFirst(requests, RequestQuery(actor)) :
          \A i \in 1..Len(L.items) : L.items[i] = all[offset + i]
    /\ L.pages * lim >= T
    /\ (L.pages - 1) * lim < T
    /\ L.hasMore <=> (\E k \in 1..T : k > pg * lim)

C30_Step ==
    (resp = NoResp /\ resp'.op = "list" /\ resp'.kind = "request") =>
        \A pg \in PageInputs, lim \in LimitInputs :
            (pg >= 1 /\ lim >= 1 /\ getServiceRequests(resp'.actor, pg, lim)) =>
                PageOfListing(resp'.list, resp'.actor, pg, lim)

\* C30: a service-request listing with page >= 1 and limit >= 1 over T matching
\* requests answers the newest-first slice of at most limit items from offset
\* (page-1)*limit, total = T, pages = ceil(T/limit), and hasMore exactly when a
\* matching request lies past position page*limit.
C30_Pagination == [][C30_Step]_vars

C30_Witness ==
    /\ resp # NoResp
    /\ resp.op = "list" /\ resp.kind = "request" /\ resp.code = 200
    /\ resp.list.total = 2
    /\ resp.list.page = 1
    /\ Len(resp.list.items) = 1
    /\ resp.list.pages = 2
    /\ resp.list.hasMore

\* the fields an update of a ticket has no business with
TicketFrame(doc) ==
    [_id |-> doc._id, userId |-> doc.userId, ticketId |-> doc.ticketId,
     category |-> doc.category, timeline |-> doc.timeline,
     viewedByAdmin |-> doc.viewedByAdmin, createdAt |-> doc.createdAt,
     updatedAt |-> doc.updatedAt, __v |-> doc.__v]

\* the same of a service request; updatedAt is the store's own bookkeeping
RequestFrame(doc) ==
    [_id |-> doc._id, userId |-> doc.userId, requestId |-> doc.requestId,
     category |-> doc.category, timeline |-> doc.timeline,
     createdAt |-> doc.createdAt, __v |-> doc.__v]

OthersUnchanged(coll, new, id) ==
    /\ DOMAIN new = DOMAIN coll
    /\ \A d \in DOMAIN coll \ {id} : new[d] = coll[d]

C31_Step ==
    (resp = NoResp /\ resp'.op = "update" /\ resp'.code = 200) =>
        /\ resp'.kind = "ticket" =>
              /\ Exists(tickets, resp'.id)
              /\ TicketFrame(tickets'[resp'.id]) = TicketFrame(tickets[resp'.id])
              /\ OthersUnchanged(tickets, tickets', resp'.id)
              /\ requests' = requests
        /\ resp'.kind = "request" =>
              /\ Exists(requests, resp'.id)
              /\ RequestFrame(requests'[resp'.id]) = RequestFrame(requests[resp'.id])
              /\ OthersUnchanged(requests, requests', resp'.id)
              /\ tickets' = tickets

\* C31: a successful update of the status changes, of the record it names, at most
\* status, completedAt and assignedVisitAt (and the store-kept updatedAt of a
\* service request): owner, human identifier, category, timeline and viewedByAdmin
\* stay as they were, and so does every other record of both collections.
C31_UpdateFrame == [][C31_Step]_vars

C31_Witness ==
    /\ resp # NoResp
    /\ resp.op = "update" /\ resp.kind = "ticket" /\ resp.code = 200 /\ resp.wrote
    /\ Exists(tickets, resp.id)
    /\ tickets[resp.id].status = "Closed"
    /\ tickets[resp.id].assignedVisitAt = 5
    /\ \E d \in DOMAIN tickets : d # resp.id /\ tickets[d].status = "New"
                                  /\ tickets[d].assignedVisitAt = NoDate

C32_Step ==
    /\ \A d \in DOMAIN tickets' \ DOMAIN tickets : ~tickets'[d].viewedByAdmin
    /\ \A d \in DOMAIN tickets \cap DOMAIN tickets' :
          /\ tickets[d].viewedByAdmin => tickets'[d].viewedByAdmin
          /\ tickets'[d].viewedByAdmin # tickets[d].viewedByAdmin =>
                 /\ resp = NoResp
                 /\ resp'.op = "markViewed"
                 /\ resp'.code = 200
                 /\ Role(resp'.actor) = "admin"
    /\ \A a \in AdminIds, d \in 1..oidT :
          d \notin TicketQuery(a, "false") => d \notin TicketQuery(a, "false")'

\* C32: viewedByAdmin is false on a ticket just created, changes only in a
\* markViewed of an admin, and never goes from true back to false; a ticket that is
\* out of the admin's default listing stays out of it, whatever is commented or
\* updated afterwards.
C32_ViewedIsMonotone == [][C32_Step]_vars

C32_Witness ==
    /\ resp # NoResp
    /\ resp.op = "addComment" /\ resp.kind = "ticket" /\ resp.code = 200
    /\ Exists(tickets, resp.id)
    /\ tickets[resp.id].userId = resp.actor
    /\ tickets[resp.id].viewedByAdmin
    /\ Len(tickets[resp.id].timeline) = 1
    /\ \A a \in AdminIds : resp.id \notin TicketQuery(a, "false")

\* ------------------------------------------------ comments and profile changes
NextProfile ==
    \/ NextRequest
    \/ \E o \in DispatchOutcomes : Dispatch(o)
    \/ \E a \in Users : createTicket(a, GoodTicketBody)
    \/ \E a \in Users : createServiceRequest(a, GoodRequestBody)
    \/ \E a \in Actors, id \in IdSpace : addCommentT(a, id, <<"a">>, << >>)
    \/ \E a \in Actors, id \in IdSpace : addCommentR(a, id, <<"a">>, << >>)
    \/ \E a \in Actors, n \in NameInputs : updateProfile(a, n)

SpecProfile == Init /\ [][NextProfile]_vars

\* addedBy of every entry of every record, in place
Signatures(coll) ==
    [d \in DOMAIN coll |-> [i \in 1..Len(coll[d].timeline) |-> coll[d].timeline[i].addedBy]]

LastSignature(coll, id) == coll[id].timeline[Len(coll[id].timeline)].addedBy

C33_Step ==
    /\ (resp = NoResp /\ resp'.op = "addComment" /\ resp'.code = 200) =>
          /\ resp'.kind = "ticket" => LastSignature(tickets', resp'.id) = UserName(resp'.actor)
          /\ resp'.kind = "request" => LastSignature(requests', resp'.id) = UserName(resp'.actor)
    /\ users' # users =>
          /\ resp'.op = "updateProfile"
          /\ Signatures(tickets') = Signatures(tickets)
          /\ Signatures(requests') = Signatures(requests)

\* C33: the addedBy of an entry just appended is the name the acting user has at that
\* moment, and an updateProfile that changes a user's name leaves the addedBy of
\* every entry already stored as it was.
C33_AddedByIsSnapshot == [][C33_Step]_vars

C33_Witness ==
    /\ resp # NoResp
    /\ resp.op = "updateProfile" /\ resp.code = 200 /\ resp.wrote
    /\ users[resp.actor].name = "Una"
    /\ \E d \in DOMAIN tickets :
          /\ tickets[d].userId = resp.actor
          /\ Len(tickets[d].timeline) = 2
          /\ tickets[d].timeline[1].addedBy = "Uma"
          /\ tickets[d].timeline[2].addedBy = "Admin a"

\* every acknowledgement stored is the owner's
SeenByOwnerOnly(coll) ==
    \A d \in DOMAIN coll : \A i \in 1..Len(coll[d].timeline) :
        \A u \in Members(coll[d].timeline[i].seenBy) : u = coll[d].userId

\* an identifier that enters a seenBy was put there by a markSeen of that very actor,
\* for that record and that entry, and the actor owns the record
SeenByAddedByCaller(coll, new, kind) ==
    \A d \in DOMAIN coll \cap DOMAIN new : \A i \in 1..Len(coll[d].timeline) :
        \A u \in Members(new[d].timeline[i].seenBy) \ Members(coll[d].timeline[i].seenBy) :
            /\ resp = NoResp
            /\ resp' = Wrote([Resp("markSeen", kind, u, d, 200) EXCEPT !.idx = i - 1])
            /\ coll[d].userId = u

C34_Step ==
    /\ SeenByAddedByCaller(tickets, tickets', "ticket")
    /\ SeenByAddedByCaller(requests, requests', "request")

\* C34: in every reachable state each identifier in a seenBy is the record's owner,
\* and it was added by a markSeen call that this owner made for that entry.
C34_SeenByIsCaller ==
    /\ [](SeenByOwnerOnly(tickets) /\ SeenByOwnerOnly(requests))
    /\ [][C34_Step]_vars

C34_Witness ==
    /\ resp # NoResp
    /\ resp.op = "markSeen" /\ resp.kind = "request" /\ resp.code = 200 /\ resp.wrote
    /\ Exists(requests, resp.id)
    /\ requests[resp.id].userId = resp.actor
    /\ requests[resp.id].timeline[resp.idx + 1].seenBy = <<resp.actor>>
    /\ requests[resp.id].timeline[resp.idx + 1].addedBy = "Admin a"

====
